---- MODULE Spec2Model ----
(***************************************************************************)
(* A model of medium-mcp: the tool surface (server.py), the access layer   *)
(* (client.py), the normalization functions (formatting.py, utils.py), the *)
(* configuration (config.py) and the records (models.py).                  *)
(*                                                                         *)
(* Text is a sequence of one-character strings, so that lower(), replace(),*)
(* strip() and the substring test of the code are computed on characters.  *)
(* A literal of the source that no code searches or rewrites (a message    *)
(* prefix, say) is written as ONE element of the sequence.                 *)
(*                                                                         *)
(* A Python value is a record tagged by its type in field t.               *)
(***************************************************************************)
EXTENDS Integers, Sequences, FiniteSets, TLC

----------------------------------------------------------------------------
(* Bounds of the model *)

\* the longest list of articles the upstream produces
MaxAvail == 2

\* the longest tag given to normalize_tag on its own
MaxTagLen == 3

\* the callers the transport serves at a time, when it serves several
MaxCallers == 2

----------------------------------------------------------------------------
(* Text *)

\* str.lower() on one character
LowerChar(c) ==
    CASE c = "A" -> "a" [] c = "B" -> "b" [] c = "C" -> "c" [] c = "D" -> "d"
      [] c = "E" -> "e" [] c = "F" -> "f" [] c = "G" -> "g" [] c = "H" -> "h"
      [] c = "I" -> "i" [] c = "J" -> "j" [] c = "K" -> "k" [] c = "L" -> "l"
      [] c = "M" -> "m" [] c = "N" -> "n" [] c = "O" -> "o" [] c = "P" -> "p"
      [] c = "Q" -> "q" [] c = "R" -> "r" [] c = "S" -> "s" [] c = "T" -> "t"
      [] c = "U" -> "u" [] c = "V" -> "v" [] c = "W" -> "w" [] c = "X" -> "x"
      [] c = "Y" -> "y" [] c = "Z" -> "z" [] OTHER -> c

\* str.lower()
Lower(s) == [i \in 1..Len(s) |-> LowerChar(s[i])]

\* str.replace(old, new) for one-character old and new
Replace(s, old, new) == [i \in 1..Len(s) |-> IF s[i] = old THEN new ELSE s[i]]

\* the characters str.strip() removes
Whitespace == {" ", "\t", "\n", "\r"}

RECURSIVE LStrip(_)
LStrip(s) == IF s # <<>> /\ Head(s) \in Whitespace THEN LStrip(Tail(s)) ELSE s

RECURSIVE RStrip(_)
RStrip(s) ==
    IF s # <<>> /\ s[Len(s)] \in Whitespace
    THEN RStrip(SubSeq(s, 1, Len(s) - 1))
    ELSE s

\* str.strip()
Strip(s) == RStrip(LStrip(s))

\* Python's  sub in s
Contains(s, sub) ==
    \E i \in 0..(Len(s) - Len(sub)) : SubSeq(s, i + 1, i + Len(sub)) = sub

\* a slice that cuts nothing
Slice_keeps_all(s, n) == s

\* s[:n] of Python for a sequence s and any integer n (a negative n counts
\* from the end)
Slice(s, n) ==
    IF n >= 0
    THEN SubSeq(s, 1, IF n < Len(s) THEN n ELSE Len(s))
    ELSE SubSeq(s, 1, IF Len(s) + n > 0 THEN Len(s) + n ELSE 0)

\* min() of Python on two integers
Min(a, b) == IF a <= b THEN a ELSE b

----------------------------------------------------------------------------
(* Python values *)

NoneV == [t |-> "None"]
StrV(s) == [t |-> "str", v |-> s]
IntV(n) == [t |-> "int", v |-> n]
BoolV(b) == [t |-> "bool", v |-> b]
\* a float, held in tenths (2.5 is FloatV(25))
FloatV(tenths) == [t |-> "float", v |-> tenths]
ListV(items) == [t |-> "list", v |-> items]
\* a datetime, with the text its isoformat() gives
DateTimeV(iso) == [t |-> "datetime", iso |-> iso]
\* any other object: its class and its attributes (a function from the names
\* of the attributes it has to their values; a method that takes no argument
\* is held as the value a call of it returns)
ObjV(cls, attrs) == [t |-> "obj", cls |-> cls, attrs |-> attrs]

\* the empty attribute map
NoAttrs == [a \in {} |-> NoneV]

\* hasattr(value, name)
hasattr(value, name) ==
    CASE value.t = "obj" -> name \in DOMAIN value.attrs
      [] value.t = "datetime" -> name = "isoformat"
      [] OTHER -> FALSE

\* getattr(obj, name, default)
getattr(obj, name, default) ==
    IF obj.t = "obj" /\ name \in DOMAIN obj.attrs THEN obj.attrs[name] ELSE default

\* value.isoformat(), as text
isoformat(value) ==
    IF value.t = "datetime" THEN value.iso ELSE value.attrs["isoformat"].v

\* type(value).__name__
ClassName(value) ==
    CASE value.t = "obj" -> value.cls
      [] value.t = "None" -> "NoneType"
      [] OTHER -> value.t

\* bool(value)
Truthy(value) ==
    CASE value.t = "None" -> FALSE
      [] value.t = "str" -> value.v # <<>>
      [] value.t = "int" -> value.v # 0
      [] value.t = "float" -> value.v # 0
      [] value.t = "bool" -> value.v
      [] value.t = "list" -> value.v # <<>>
      [] OTHER -> TRUE

Digit(d) ==
    CASE d = 0 -> "0" [] d = 1 -> "1" [] d = 2 -> "2" [] d = 3 -> "3"
      [] d = 4 -> "4" [] d = 5 -> "5" [] d = 6 -> "6" [] d = 7 -> "7"
      [] d = 8 -> "8" [] OTHER -> "9"

RECURSIVE NatText(_)
NatText(n) == IF n < 10 THEN <<Digit(n)>> ELSE NatText(n \div 10) \o <<Digit(n % 10)>>

\* str(n) for an integer
IntText(n) == IF n < 0 THEN <<"-">> \o NatText(0 - n) ELSE NatText(n)

RECURSIVE ItemsText(_)
\* str(value), as text
PyStr(value) ==
    CASE value.t = "None" -> <<"N", "o", "n", "e">>
      [] value.t = "str" -> value.v
      [] value.t = "int" -> IntText(value.v)
      [] value.t = "float" ->
            IntText(value.v \div 10) \o <<".">> \o NatText(value.v % 10)
      [] value.t = "bool" ->
            IF value.v THEN <<"T", "r", "u", "e">> ELSE <<"F", "a", "l", "s", "e">>
      [] value.t = "list" -> <<"[">> \o ItemsText(value.v) \o <<"]">>
      [] value.t = "datetime" -> Replace(value.iso, "T", " ")
      [] OTHER ->
            IF "__str__" \in DOMAIN value.attrs THEN value.attrs["__str__"].v
            ELSE <<"<", value.cls, " object>">>

\* the items of a list of integers as str() writes them, separated by ", "
ItemsText(items) ==
    IF items = <<>> THEN <<>>
    ELSE IF Len(items) = 1 THEN IntText(items[1].v)
    ELSE IntText(items[1].v) \o <<",", " ">> \o ItemsText(Tail(items))

----------------------------------------------------------------------------
(* formatting.py, utils.py *)

\* normalize_tag that lowercases and leaves the spaces
normalize_tag_keeps_spaces(tag) ==
    IF ~Truthy(tag) THEN tag ELSE StrV(Lower(tag.v))

\* str.upper() on one character
UpperChar(c) ==
    CASE c = "a" -> "A" [] c = "b" -> "B" [] c = "c" -> "C" [] c = "d" -> "D"
      [] c = "e" -> "E" [] c = "f" -> "F" [] c = "g" -> "G" [] c = "h" -> "H"
      [] c = "i" -> "I" [] c = "j" -> "J" [] c = "k" -> "K" [] c = "l" -> "L"
      [] c = "m" -> "M" [] c = "n" -> "N" [] c = "o" -> "O" [] c = "p" -> "P"
      [] c = "q" -> "Q" [] c = "r" -> "R" [] c = "s" -> "S" [] c = "t" -> "T"
      [] c = "u" -> "U" [] c = "v" -> "V" [] c = "w" -> "W" [] c = "x" -> "X"
      [] c = "y" -> "Y" [] c = "z" -> "Z" [] OTHER -> c

\* str.swapcase()
SwapCase(s) ==
    [i \in 1..Len(s) |->
        IF LowerChar(s[i]) # s[i] THEN LowerChar(s[i]) ELSE UpperChar(s[i])]

\* normalize_tag that calls swapcase() for lower()
normalize_tag_swapcase(tag) ==
    IF ~Truthy(tag) THEN tag
    ELSE StrV(Replace(SwapCase(tag.v), " ", "-"))

\* normalize_tag that trims the tag first
normalize_tag_trims(tag) ==
    IF ~Truthy(tag) THEN tag
    ELSE StrV(Replace(Lower(Strip(tag.v)), " ", "-"))

\* normalize_tag: tag is None or a str
normalize_tag(tag) ==
    IF ~Truthy(tag) THEN tag
    ELSE StrV(Replace(Lower(tag.v), " ", "-"))

\* convert_to_string without the test of the last branch (str(value) alone)
convert_to_string_str_of_falsy(value) ==
    IF value.t = "None" \/ (value.t = "str" /\ value.v = <<>>) THEN StrV(<<>>)
    ELSE IF hasattr(value, "username") /\ Truthy(value.attrs["username"])
         THEN StrV(PyStr(value.attrs["username"]))
    ELSE IF hasattr(value, "isoformat") THEN StrV(isoformat(value))
    ELSE StrV(PyStr(value))

\* convert_to_string that takes a username whatever it holds
convert_to_string_any_username(value) ==
    IF value.t = "None" \/ (value.t = "str" /\ value.v = <<>>) THEN StrV(<<>>)
    ELSE IF hasattr(value, "username")
         THEN StrV(PyStr(value.attrs["username"]))
    ELSE IF hasattr(value, "isoformat") THEN StrV(isoformat(value))
    ELSE IF Truthy(value) THEN StrV(PyStr(value)) ELSE StrV(<<>>)

\* convert_to_string with the isoformat branch before the username branch
convert_to_string_isoformat_first(value) ==
    IF value.t = "None" \/ (value.t = "str" /\ value.v = <<>>) THEN StrV(<<>>)
    ELSE IF hasattr(value, "isoformat") THEN StrV(isoformat(value))
    ELSE IF hasattr(value, "username") /\ Truthy(value.attrs["username"])
         THEN StrV(PyStr(value.attrs["username"]))
    ELSE IF Truthy(value) THEN StrV(PyStr(value)) ELSE StrV(<<>>)

\* convert_to_string
convert_to_string(value) ==
    IF value.t = "None" \/ (value.t = "str" /\ value.v = <<>>) THEN StrV(<<>>)
    ELSE IF hasattr(value, "username") /\ Truthy(value.attrs["username"])
         THEN StrV(PyStr(value.attrs["username"]))
    ELSE IF hasattr(value, "isoformat") THEN StrV(isoformat(value))
    ELSE IF Truthy(value) THEN StrV(PyStr(value)) ELSE StrV(<<>>)

\* safe_getattr
safe_getattr(obj, attr, default) ==
    LET value == getattr(obj, attr, default)
    IN  IF value.t = "None" THEN default ELSE value

----------------------------------------------------------------------------
(* Exceptions and results of an evaluation that may raise *)

\* an exception other than MediumError; str(e) is msg
Exc(type, msg) == [type |-> type, msg |-> msg]

Returned(value) == [kind |-> "return", value |-> value]
Raised(exc) == [kind |-> "raise", exc |-> exc]

\* obj.name on an object without the attribute
AttributeError(obj, name) ==
    Exc("AttributeError",
        <<"'", ClassName(obj), "' object has no attribute '", name, "'">>)

\* the ValidationError pydantic raises when the fields of a model do not
\* fit (pydantic's text, which lists the fields, is cut to its first line)
ValidationError(model) ==
    Exc("ValidationError", <<"validation error for ", model>>)

----------------------------------------------------------------------------
(* models.py *)

\* the annotation of each field of MediumUser
MediumUser ==
    [user_id |-> "str", username |-> "str", fullname |-> "str",
     bio |-> "optstr", followers_count |-> "int", following_count |-> "int",
     twitter_username |-> "optstr", image_url |-> "optstr",
     medium_member_at |-> "optstr", is_writer_program_enrolled |-> "bool",
     has_list |-> "bool", is_suspended |-> "bool"]

\* the annotation of each field of MediumArticle
MediumArticle ==
    [article_id |-> "str", title |-> "str", subtitle |-> "optstr",
     author |-> "str", published_at |-> "str", last_modified_at |-> "str",
     tags |-> "liststr", topics |-> "liststr", claps |-> "int",
     voters |-> "int", word_count |-> "int", reading_time |-> "float",
     responses_count |-> "int", url |-> "str", unique_slug |-> "str",
     is_locked |-> "bool", is_shortform |-> "bool", language |-> "str"]

\* the annotation of each field of ArticleContent
ArticleContent ==
    [title |-> "str", subtitle |-> "optstr", content |-> "str",
     content_format |-> "str", author |-> "str", published_at |-> "str"]

\* pydantic's check of one value against an annotation. The upstream
\* values of the model are of the annotated type, None or absent, so of
\* pydantic's conversions only int to float arises.
Conforms(value, annotation) ==
    CASE annotation = "str" -> value.t = "str"
      [] annotation = "optstr" -> value.t \in {"str", "None"}
      [] annotation = "int" -> value.t = "int"
      [] annotation = "float" -> value.t \in {"float", "int"}
      [] annotation = "bool" -> value.t = "bool"
      [] annotation = "liststr" ->
            value.t = "list" /\ \A i \in 1..Len(value.v) : value.v[i].t = "str"
      [] OTHER -> FALSE

\* the value pydantic stores
Coerce(value, annotation) ==
    IF annotation = "float" /\ value.t = "int" THEN FloatV(value.v * 10) ELSE value

\* BaseModel.__init__: the record, or ValidationError
Construct(name, schema, fields) ==
    IF \A f \in DOMAIN schema : Conforms(fields[f], schema[f])
    THEN Returned([f \in DOMAIN schema |-> Coerce(fields[f], schema[f])])
    ELSE Raised(ValidationError(name))

\* MediumError.__init__: details is a function from keys to text, or None
MediumError(message, status_code, details) ==
    [type |-> "MediumError", message |-> message, status_code |-> status_code,
     details |-> IF details = NoneV THEN NoAttrs ELSE details]

----------------------------------------------------------------------------
(* client.py: MediumClient._handle_api_error *)

\* _handle_api_error that looks for "not found" first
handle_api_error_not_found_first(error, context) ==
    LET error_msg == <<"Medium API error in ">> \o context \o <<": ">> \o error.msg
        lowered == Lower(error.msg)
    IN  IF Contains(lowered, <<"n", "o", "t", " ", "f", "o", "u", "n", "d">>)
        THEN MediumError(<<"Resource not found: ">> \o context,
                         IntV(404), [context |-> context])
        ELSE IF Contains(lowered, <<"r", "a", "t", "e", " ", "l", "i", "m", "i", "t">>)
        THEN MediumError(<<"Rate limit exceeded. Please try again later.">>,
                         IntV(429), [context |-> context])
        ELSE IF Contains(lowered,
                    <<"u", "n", "a", "u", "t", "h", "o", "r", "i", "z", "e", "d">>)
        THEN MediumError(<<"Invalid RapidAPI key. Please check your configuration.">>,
                         IntV(401), [context |-> context])
        ELSE MediumError(error_msg, NoneV,
                         [context |-> context, original_error |-> error.msg])

\* _handle_api_error that keeps no original_error for an unclassified failure
handle_api_error_drops_original(error, context) ==
    LET lowered == Lower(error.msg)
    IN  IF Contains(lowered, <<"r", "a", "t", "e", " ", "l", "i", "m", "i", "t">>)
        THEN MediumError(<<"Rate limit exceeded. Please try again later.">>,
                         IntV(429), [context |-> context])
        ELSE IF Contains(lowered,
                    <<"u", "n", "a", "u", "t", "h", "o", "r", "i", "z", "e", "d">>)
        THEN MediumError(<<"Invalid RapidAPI key. Please check your configuration.">>,
                         IntV(401), [context |-> context])
        ELSE IF Contains(lowered, <<"n", "o", "t", " ", "f", "o", "u", "n", "d">>)
        THEN MediumError(<<"Resource not found: ">> \o context,
                         IntV(404), [context |-> context])
        ELSE MediumError(<<"Medium API error in ">> \o context, NoneV,
                         [context |-> context])

\* the MediumError that _handle_api_error raises; it never returns
handle_api_error(error, context) ==
    LET error_msg == <<"Medium API error in ">> \o context \o <<": ">> \o error.msg
        lowered == Lower(error.msg)
    IN  IF Contains(lowered, <<"r", "a", "t", "e", " ", "l", "i", "m", "i", "t">>)
        THEN MediumError(<<"Rate limit exceeded. Please try again later.">>,
                         IntV(429), [context |-> context])
        ELSE IF Contains(lowered,
                    <<"u", "n", "a", "u", "t", "h", "o", "r", "i", "z", "e", "d">>)
        THEN MediumError(<<"Invalid RapidAPI key. Please check your configuration.">>,
                         IntV(401), [context |-> context])
        ELSE IF Contains(lowered, <<"n", "o", "t", " ", "f", "o", "u", "n", "d">>)
        THEN MediumError(<<"Resource not found: ">> \o context,
                         IntV(404), [context |-> context])
        ELSE MediumError(error_msg, NoneV,
                         [context |-> context, original_error |-> error.msg])

----------------------------------------------------------------------------
(* client.py: the record each operation builds from an upstream object *)

\* obj.name raises AttributeError
Missing(obj, name) == obj.t # "obj" \/ name \notin DOMAIN obj.attrs

\* x in the place of  x or ""
OrEmpty_keeps_value(value) == value

\* x or ""
OrEmpty(value) == IF Truthy(value) THEN value ELSE StrV(<<>>)

\* The keyword arguments of a constructor are evaluated in the order
\* written, so the first attribute of `required` (the attributes read as
\* obj.name, in that order) that obj lacks raises AttributeError; with all of
\* them present the model is constructed from `fields`.
Build(name, schema, obj, required, fields) ==
    LET lacking == {i \in 1..Len(required) : Missing(obj, required[i])}
    IN  IF lacking # {}
        THEN Raised(AttributeError(obj,
                 required[CHOOSE i \in lacking : \A j \in lacking : i <= j]))
        ELSE Construct(name, schema, fields)

\* MediumUser(...) of get_user_info
get_user_info_record(user) ==
    Build("MediumUser", MediumUser, user,
          <<"username", "fullname", "followers_count">>,
          [user_id |-> getattr(user, "user_id", StrV(<<>>)),
           username |-> user.attrs["username"],
           fullname |-> user.attrs["fullname"],
           bio |-> getattr(user, "bio", NoneV),
           followers_count |-> user.attrs["followers_count"],
           following_count |-> getattr(user, "following_count", IntV(0)),
           twitter_username |-> getattr(user, "twitter_username", NoneV),
           image_url |-> getattr(user, "image_url", NoneV),
           medium_member_at |->
               convert_to_string(getattr(user, "medium_member_at", NoneV)),
           is_writer_program_enrolled |->
               getattr(user, "is_writer_program_enrolled", BoolV(FALSE)),
           has_list |-> getattr(user, "has_list", BoolV(FALSE)),
           is_suspended |-> getattr(user, "is_suspended", BoolV(FALSE))])

\* MediumArticle(...) of get_user_articles
get_user_articles_record(article, username) ==
    Build("MediumArticle", MediumArticle, article, <<"title", "url">>,
          [article_id |-> getattr(article, "article_id", StrV(<<>>)),
           title |-> article.attrs["title"],
           subtitle |-> getattr(article, "subtitle", NoneV),
           author |-> username,
           published_at |->
               convert_to_string(getattr(article, "published_at", StrV(<<>>))),
           last_modified_at |->
               convert_to_string(getattr(article, "last_modified_at", StrV(<<>>))),
           tags |-> getattr(article, "tags", ListV(<<>>)),
           topics |-> getattr(article, "topics", ListV(<<>>)),
           claps |-> getattr(article, "claps", IntV(0)),
           voters |-> getattr(article, "voters", IntV(0)),
           word_count |-> getattr(article, "word_count", IntV(0)),
           reading_time |-> getattr(article, "reading_time", FloatV(0)),
           responses_count |-> getattr(article, "responses_count", IntV(0)),
           url |-> article.attrs["url"],
           unique_slug |-> getattr(article, "unique_slug", StrV(<<>>)),
           is_locked |-> getattr(article, "is_locked", BoolV(FALSE)),
           is_shortform |-> getattr(article, "is_shortform", BoolV(FALSE)),
           language |-> getattr(article, "language", StrV(<<"en">>))])

\* MediumArticle(...) of get_top_feeds
get_top_feeds_record(article) ==
    Build("MediumArticle", MediumArticle, article, <<"title", "url">>,
          [article_id |-> getattr(article, "article_id", StrV(<<>>)),
           title |-> article.attrs["title"],
           subtitle |-> getattr(article, "subtitle", NoneV),
           author |-> convert_to_string(getattr(article, "author", StrV(<<>>))),
           published_at |->
               convert_to_string(getattr(article, "published_at", StrV(<<>>))),
           last_modified_at |->
               convert_to_string(getattr(article, "last_modified_at", StrV(<<>>))),
           tags |-> getattr(article, "tags", ListV(<<>>)),
           topics |-> getattr(article, "topics", ListV(<<>>)),
           claps |-> getattr(article, "claps", IntV(0)),
           voters |-> getattr(article, "voters", IntV(0)),
           word_count |-> getattr(article, "word_count", IntV(0)),
           reading_time |-> getattr(article, "reading_time", FloatV(0)),
           responses_count |-> getattr(article, "responses_count", IntV(0)),
           url |-> article.attrs["url"],
           unique_slug |-> getattr(article, "unique_slug", StrV(<<>>)),
           is_locked |-> getattr(article, "is_locked", BoolV(FALSE)),
           is_shortform |-> getattr(article, "is_shortform", BoolV(FALSE)),
           language |-> getattr(article, "language", StrV(<<"en">>))])

\* MediumArticle(...) of search_articles
search_articles_record(article) ==
    Build("MediumArticle", MediumArticle, article, <<>>,
          [article_id |-> safe_getattr(article, "article_id", StrV(<<>>)),
           title |-> safe_getattr(article, "title", StrV(<<>>)),
           subtitle |-> safe_getattr(article, "subtitle", NoneV),
           author |->
               convert_to_string(safe_getattr(article, "author", StrV(<<>>))),
           published_at |->
               convert_to_string(safe_getattr(article, "published_at", StrV(<<>>))),
           last_modified_at |->
               convert_to_string(
                   safe_getattr(article, "last_modified_at", StrV(<<>>))),
           tags |-> safe_getattr(article, "tags", ListV(<<>>)),
           topics |-> safe_getattr(article, "topics", ListV(<<>>)),
           claps |-> safe_getattr(article, "claps", IntV(0)),
           voters |-> safe_getattr(article, "voters", IntV(0)),
           word_count |-> safe_getattr(article, "word_count", IntV(0)),
           reading_time |-> safe_getattr(article, "reading_time", FloatV(0)),
           responses_count |-> safe_getattr(article, "responses_count", IntV(0)),
           url |-> safe_getattr(article, "url", StrV(<<>>)),
           unique_slug |-> safe_getattr(article, "unique_slug", StrV(<<>>)),
           is_locked |-> safe_getattr(article, "is_locked", BoolV(FALSE)),
           is_shortform |-> safe_getattr(article, "is_shortform", BoolV(FALSE)),
           language |-> safe_getattr(article, "language", StrV(<<"en">>))])

\* a selection that reads the markdown for "html" and the html for "markdown"
SelectedAttr_swapped(content_format) ==
    IF content_format = StrV(<<"html">>) THEN "markdown"
    ELSE IF content_format = StrV(<<"markdown">>) THEN "html"
    ELSE "content"

\* a selection that reads the html for a selector it does not know
SelectedAttr_html_fallback(content_format) ==
    IF content_format = StrV(<<"text">>) THEN "content"
    ELSE IF content_format = StrV(<<"markdown">>) THEN "markdown"
    ELSE "html"

\* the attribute of the article that a format selector reads
SelectedAttr(content_format) ==
    IF content_format = StrV(<<"html">>) THEN "html"
    ELSE IF content_format = StrV(<<"markdown">>) THEN "markdown"
    ELSE "content"

\* ArticleContent(...) of get_article_content
get_article_content_record(article, content_format) ==
    LET author_value ==
            IF getattr(article, "author", NoneV) = NoneV THEN StrV(<<>>)
            ELSE getattr(article, "author", NoneV)
        published_at_value ==
            IF getattr(article, "published_at", NoneV) = NoneV THEN StrV(<<>>)
            ELSE getattr(article, "published_at", NoneV)
    IN  Build("ArticleContent", ArticleContent, article,
              <<SelectedAttr(content_format), "title">>,
              [title |-> OrEmpty(article.attrs["title"]),
               subtitle |-> getattr(article, "subtitle", NoneV),
               content |-> OrEmpty(article.attrs[SelectedAttr(content_format)]),
               content_format |-> content_format,
               author |-> convert_to_string(author_value),
               published_at |-> convert_to_string(published_at_value)])

\* a loop that skips the articles whose record cannot be built
RECURSIVE Records_skips_failed(_)
Records_skips_failed(outs) ==
    IF outs = <<>> THEN Returned(ListV(<<>>))
    ELSE LET rest == Records_skips_failed(Tail(outs)).value.v
         IN  Returned(ListV(IF Head(outs).kind = "raise" THEN rest
                            ELSE <<Head(outs).value>> \o rest))

\* the loop over the articles: the list of the records, or the exception of
\* the first article whose record cannot be built
Records(outs) ==
    LET failed == {i \in 1..Len(outs) : outs[i].kind = "raise"}
    IN  IF failed = {}
        THEN Returned(ListV([i \in 1..Len(outs) |-> outs[i].value]))
        ELSE Raised(outs[CHOOSE i \in failed : \A j \in failed : i <= j].exc)

----------------------------------------------------------------------------
(* config.py *)

\* the least length of a credential (validate_rapidapi_key)
MinKeyLen == 10
\* the range and the default of max_articles_per_request
MinCeiling == 1
MaxCeiling == 100
DefaultCeiling == 3

DigitValue(c) ==
    CASE c = "0" -> 0 [] c = "1" -> 1 [] c = "2" -> 2 [] c = "3" -> 3
      [] c = "4" -> 4 [] c = "5" -> 5 [] c = "6" -> 6 [] c = "7" -> 7
      [] c = "8" -> 8 [] c = "9" -> 9 [] OTHER -> -1

RECURSIVE DigitsValue(_)
DigitsValue(s) ==
    IF s = <<>> THEN 0 ELSE DigitsValue(SubSeq(s, 1, Len(s) - 1)) * 10 + DigitValue(s[Len(s)])

\* int(text) for a text of decimal digits; any other text raises ValueError
ParseInt(s) ==
    IF s # <<>> /\ \A i \in 1..Len(s) : DigitValue(s[i]) >= 0
    THEN Returned(DigitsValue(s))
    ELSE Raised(Exc("ValueError", <<"invalid literal for int() with base 10">>))

\* a validator of the key that returns the key as given (v for v.strip())
MediumMCPConfig_key_as_given(rapidapi_key, max_articles_per_request) ==
    IF rapidapi_key = <<>> \/ Len(Strip(rapidapi_key)) < MinKeyLen
    THEN Raised(Exc("ValidationError",
                    <<"RapidAPI key must be at least 10 characters long">>))
    ELSE IF max_articles_per_request < MinCeiling
            \/ max_articles_per_request > MaxCeiling
    THEN Raised(ValidationError("MediumMCPConfig"))
    ELSE Returned([rapidapi_key |-> rapidapi_key,
                   max_articles_per_request |-> max_articles_per_request])

\* MediumMCPConfig(rapidapi_key=..., max_articles_per_request=...): the
\* field validator of the key, then the range of the ceiling
MediumMCPConfig(rapidapi_key, max_articles_per_request) ==
    IF rapidapi_key = <<>> \/ Len(Strip(rapidapi_key)) < MinKeyLen
    THEN Raised(Exc("ValidationError",
                    <<"RapidAPI key must be at least 10 characters long">>))
    ELSE IF max_articles_per_request < MinCeiling
            \/ max_articles_per_request > MaxCeiling
    THEN Raised(ValidationError("MediumMCPConfig"))
    ELSE Returned([rapidapi_key |-> Strip(rapidapi_key),
                   max_articles_per_request |-> max_articles_per_request])

\* MediumMCPConfig.from_env; environ maps each variable to None (unset) or
\* to its text
from_env(environ) ==
    LET rapidapi_key == environ.RAPIDAPI_KEY
        ceiling ==
            IF environ.MAX_ARTICLES_PER_REQUEST = NoneV
            THEN Returned(DefaultCeiling)
            ELSE ParseInt(environ.MAX_ARTICLES_PER_REQUEST.v)
    IN  IF ~Truthy(rapidapi_key)
        THEN Raised(Exc("ValueError",
                        <<"RAPIDAPI_KEY environment variable is required. ">>))
        ELSE IF ceiling.kind = "raise" THEN ceiling
        ELSE MediumMCPConfig(rapidapi_key.v, ceiling.value)

----------------------------------------------------------------------------
(* server.py: the client handle and the validation of each tool *)

\* the least and the greatest count a tool accepts
MinCount == 1
MaxCount == 100

\* initialize_client that builds the configuration without validating it
initialize_client_unvalidated(environ) ==
    [t |-> "MediumClient",
     config |-> [rapidapi_key |-> IF environ.RAPIDAPI_KEY = NoneV THEN <<>>
                                  ELSE environ.RAPIDAPI_KEY.v,
                 max_articles_per_request |-> DefaultCeiling]]

\* initialize_client under the try/except of the module: the client, or
\* None when from_env or the constructor raised
initialize_client(environ) ==
    LET config == from_env(environ)
    IN  IF config.kind = "return"
        THEN [t |-> "MediumClient", config |-> config.value]
        ELSE NoneV

\* ensure_client without the test for None
ensure_client_unchecked(client_) == Returned(client_)

\* ensure_client
ensure_client(client_) ==
    IF client_ = NoneV
    THEN Raised(MediumError(
             <<"Medium MCP server not initialized. Check your RAPIDAPI_KEY environment variable.">>,
             NoneV, NoneV))
    ELSE Returned(client_)

ValueError(msg) == Exc("ValueError", msg)

CountError == ValueError(<<"Count must be between 1 and 100">>)

VALID_FEED_MODES ==
    {"hot", "new", "top_year", "top_month", "top_week", "top_all_time"}

\* the checks a tool makes before ensure_client: the exception of the first
\* that fails, or None
get_user_articles_validation(count) ==
    IF count < MinCount \/ count > MaxCount THEN CountError ELSE NoneV

get_article_content_validation(format) ==
    IF format \notin {StrV(<<"text">>), StrV(<<"html">>), StrV(<<"markdown">>)}
    THEN ValueError(<<"Format must be 'text', 'html', or 'markdown'">>)
    ELSE NoneV

\* a validation that lets the count one past the range through
get_top_feeds_validation_off_by_one(mode, count) ==
    IF count < MinCount \/ count > MaxCount + 1 THEN CountError
    ELSE IF mode \notin VALID_FEED_MODES
    THEN ValueError(<<"Invalid mode '", mode, "'. Must be one of: ",
                      "hot, new, top_year, top_month, top_week, top_all_time">>)
    ELSE NoneV

get_top_feeds_validation(mode, count) ==
    IF count < MinCount \/ count > MaxCount THEN CountError
    ELSE IF mode \notin VALID_FEED_MODES
    THEN ValueError(<<"Invalid mode '", mode, "'. Must be one of: ",
                      "hot, new, top_year, top_month, top_week, top_all_time">>)
    ELSE NoneV

\* a validation that does not trim the query
search_articles_validation_no_strip(query, count) ==
    IF query = <<>> THEN ValueError(<<"Search query cannot be empty">>)
    ELSE IF count < MinCount \/ count > MaxCount THEN CountError
    ELSE NoneV

search_articles_validation(query, count) ==
    IF Strip(query) = <<>> THEN ValueError(<<"Search query cannot be empty">>)
    ELSE IF count < MinCount \/ count > MaxCount THEN CountError
    ELSE NoneV

\* except clauses that give every failure the prefix "Error: "
ToolRaise_one_prefix(exc) ==
    IF exc.type = "MediumError"
    THEN Raised(Exc("Exception", <<"Error: ">> \o exc.message))
    ELSE Raised(Exc("Exception", <<"Error: ">> \o exc.msg))

\* the except clauses of a tool: what it raises for an exception
ToolRaise(exc) ==
    IF exc.type = "MediumError"
    THEN Raised(Exc("Exception", <<"Medium API Error: ">> \o exc.message))
    ELSE Raised(Exc("Exception", <<"Error: ">> \o exc.msg))

\* json.dumps of a value, as the JSON document it writes
RECURSIVE json_dumps(_)
json_dumps(value) ==
    CASE value.t = "None" -> [j |-> "null"]
      [] value.t = "str" -> [j |-> "string", v |-> value.v]
      [] value.t = "bool" -> [j |-> IF value.v THEN "true" ELSE "false"]
      [] value.t = "int" -> [j |-> "number", v |-> value.v]
      [] value.t = "float" -> [j |-> "number", tenths |-> value.v]
      [] value.t = "list" ->
            [j |-> "array", items |-> [i \in 1..Len(value.v) |-> json_dumps(value.v[i])]]
      [] OTHER -> [j |-> "null"]

\* a dump that leaves out the fields that are None (exclude_none=True)
model_dump_json_exclude_none(record) ==
    [j |-> "object",
     members |-> [f \in {g \in DOMAIN record : record[g].t # "None"} |->
                     json_dumps(record[f])]]

\* json.dumps(record.model_dump())
model_dump_json(record) ==
    [j |-> "object", members |-> [f \in DOMAIN record |-> json_dumps(record[f])]]

\* what a tool returns for what the access layer returned
\* (x.model_dump() if x else None;  [a.model_dump() for a in x] if x else [])
ToolReturn(op, value) ==
    IF op \in {"get_user_info", "get_article_content"}
    THEN Returned(IF value = NoneV THEN [j |-> "null"] ELSE model_dump_json(value))
    ELSE Returned(IF ~Truthy(value)
                  THEN [j |-> "array", items |-> <<>>]
                  ELSE [j |-> "array",
                        items |-> [i \in 1..Len(value.v) |->
                                      model_dump_json(value.v[i])]])

----------------------------------------------------------------------------
(* The upstream service and the inputs of the model *)

Rep(c, n) == [i \in 1..n |-> c]

\* the environments the process may start in
Environments ==
    [RAPIDAPI_KEY :
        {NoneV, StrV(<<>>), StrV(Rep("k", 9)),
         StrV(<<" ", " ">> \o Rep("k", 9) \o <<" ">>),
         StrV(<<" ">> \o Rep("k", 10) \o <<" ">>)},
     MAX_ARTICLES_PER_REQUEST :
        {NoneV, StrV(<<"0">>), StrV(<<"1">>), StrV(<<"2">>), StrV(<<"x">>),
         StrV(<<"1", "0", "0">>), StrV(<<"1", "0", "1">>)}]

Bob == <<"b", "o", "b">>
Zed == <<"z", "e", "d">>
\* the handles a caller asks for; the upstream has a record of Bob only
Usernames == {Bob, Zed}
KnownUsernames == {Bob}

Stamp ==
    <<"2", "0", "2", "4", "-", "0", "1", "-", "1", "5", "T",
      "1", "0", ":", "3", "0", ":", "4", "5">>

\* the user objects the upstream may return for a handle it knows: one with
\* every attribute, one with the attributes get_user_info reads directly,
\* one with the required ones and others that carry no value, one without
\* fullname
UserObjects ==
    {ObjV("User",
          [user_id |-> StrV(<<"u1">>), username |-> StrV(Bob),
           fullname |-> StrV(<<"Bob B">>), bio |-> StrV(<<"bio">>),
           followers_count |-> IntV(1000), following_count |-> IntV(500),
           twitter_username |-> StrV(<<"bob_tw">>),
           image_url |-> StrV(<<"https://example.com/image.jpg">>),
           medium_member_at |-> DateTimeV(Stamp),
           is_writer_program_enrolled |-> BoolV(TRUE),
           has_list |-> BoolV(TRUE), is_suspended |-> BoolV(FALSE)]),
     ObjV("User",
          [username |-> StrV(Bob), fullname |-> StrV(<<"Bob B">>),
           followers_count |-> IntV(0)]),
     ObjV("User",
          [user_id |-> StrV(<<"u3">>), username |-> StrV(Bob),
           fullname |-> StrV(<<"Bob B">>),
           followers_count |-> IntV(7), bio |-> NoneV,
           following_count |-> NoneV, medium_member_at |-> NoneV]),
     ObjV("User", [username |-> StrV(Bob), followers_count |-> IntV(7)])}

\* the failures an upstream call may raise, by the text str() gives
FailureTexts ==
    {<<"R", "a", "t", "e", " ", "L", "i", "m", "i", "t", " ", "e", "x">>,
     <<"U", "N", "A", "U", "T", "H", "O", "R", "I", "Z", "E", "D">>,
     <<"U", "s", "e", "r", " ", "n", "o", "t", " ", "f", "o", "u", "n", "d">>,
     <<"b", "o", "o", "m">>,
     <<"N", "o", "t", " ", "F", "o", "u", "n", "d", ":", " ",
       "r", "a", "t", "e", " ", "l", "i", "m", "i", "t">>,
     <<"n", "o", "t", " ", "f", "o", "u", "n", "d", ",",
       "u", "n", "a", "u", "t", "h", "o", "r", "i", "z", "e", "d">>,
     <<"U", "n", "a", "u", "t", "h", "o", "r", "i", "z", "e", "d", ";",
       "R", "A", "T", "E", " ", "L", "I", "M", "I", "T">>,
     <<"r", "a", "t", "e", "l", "i", "m", "i", "t", " ", "n", "o", "t", "-",
       "f", "o", "u", "n", "d">>}

Failures == {Raised(Exc("Exception", m)) : m \in FailureTexts}

\* what medium.user(username=...) may do: for a handle the upstream knows,
\* return a user object or raise; for one it has no record of, raise, or
\* return no object or an object without attributes (the library is not
\* part of the sources, so each of these is possible)
UserResponses(username) ==
    Failures \cup
    (IF username \in KnownUsernames
     THEN {Returned(u) : u \in UserObjects}
     ELSE {Returned(NoneV), Returned(ObjV("User", NoAttrs))})

\* the articles of the upstream, by identifier: what each carries once it is
\* hydrated. a1 carries every attribute; a2 only those read directly; a3
\* carries the required ones and others without value; a4 lacks the title.
ArticleIds == {"a1", "a2", "a3", "a4"}
ArticleInfo(id) ==
    CASE id = "a1" ->
            [title |-> StrV(<<"Title 1">>), subtitle |-> StrV(<<"Sub 1">>),
             author |-> ObjV("User", [username |-> StrV(Bob)]),
             published_at |-> DateTimeV(Stamp),
             last_modified_at |-> StrV(<<"2024-01-02">>),
             tags |-> ListV(<<StrV(<<"ai">>), StrV(<<"ml">>)>>),
             topics |-> ListV(<<StrV(<<"tech">>)>>),
             claps |-> IntV(100), voters |-> IntV(10), word_count |-> IntV(500),
             reading_time |-> FloatV(25), responses_count |-> IntV(5),
             url |-> StrV(<<"https://medium.com/a1">>),
             unique_slug |-> StrV(<<"title-1">>), is_locked |-> BoolV(TRUE),
             is_shortform |-> BoolV(FALSE), language |-> StrV(<<"fr">>)]
      [] id = "a2" ->
            [title |-> StrV(<<"Title 2">>), url |-> StrV(<<"https://medium.com/a2">>)]
      [] id = "a3" ->
            [title |-> StrV(<<"Title 3">>), url |-> StrV(<<"https://medium.com/a3">>),
             author |-> StrV(Bob), unique_slug |-> StrV(<<"title-3">>),
             subtitle |-> NoneV, published_at |-> NoneV,
             tags |-> NoneV, claps |-> NoneV, language |-> NoneV]
      [] OTHER -> [url |-> StrV(<<"https://medium.com/a4">>)]

\* an Article as a feed or a search lists it: the identifier alone
Stub(id) == ObjV("Article", [article_id |-> StrV(<<id>>)])

\* an Article after fetch_articles has filled it
Hydrated(stub) ==
    ObjV("Article", ArticleInfo(stub.attrs["article_id"].v[1]) @@ stub.attrs)

\* the lists of articles an upstream call may produce
RECURSIVE ListsUpTo(_)
ListsUpTo(n) ==
    IF n = 0 THEN {<<>>}
    ELSE ListsUpTo(n - 1) \cup
         {Append(l, Stub(id)) : l \in {k \in ListsUpTo(n - 1) : Len(k) = n - 1},
                                id \in ArticleIds}
ArticleLists == ListsUpTo(MaxAvail)

\* the articles medium.article(article_id=...) may return: one with every
\* representation, one whose attributes carry no value, one with the text
\* representation only and a textual author and date
ArticleObjects ==
    {ObjV("Article",
          [title |-> StrV(<<"Title 1">>), subtitle |-> StrV(<<"Sub 1">>),
           content |-> StrV(<<"Text 1">>), html |-> StrV(<<"<h1>Text 1</h1>">>),
           markdown |-> StrV(<<"# Text 1">>),
           author |-> ObjV("User", [username |-> StrV(Bob)]),
           published_at |-> DateTimeV(Stamp)]),
     ObjV("Article",
          [title |-> NoneV, subtitle |-> NoneV, content |-> NoneV,
           html |-> NoneV, markdown |-> NoneV, author |-> NoneV,
           published_at |-> NoneV]),
     ObjV("Article",
          [title |-> StrV(<<"Title 3">>), content |-> StrV(<<"Text 3">>),
           author |-> StrV(Bob), published_at |-> StrV(<<"2024-01-01">>)])}

\* the arguments callers pass
Counts == {0, 1, 2, 3, 100, 101}
ClientCounts == {-1, 0, 1, 2, 3}
ArticleKeys == {<<"abc123">>}
Formats == {StrV(<<"text">>), StrV(<<"html">>), StrV(<<"markdown">>), StrV(<<"pdf">>)}
DataScience ==
    <<"D", "a", "t", "a", " ", "S", "c", "i", "e", "n", "c", "e">>
Tags == {StrV(<<>>), StrV(DataScience), StrV(<<"a", "i">>)}
ClientTags == Tags \cup {NoneV}
Modes == {"hot", "top_month", "latest"}
Queries == {<<>>, <<" ", "\t">>, <<" ", "a", "i", " ">>}

----------------------------------------------------------------------------
(* State *)

VARIABLES
    environ,   \* os.environ: RAPIDAPI_KEY and MAX_ARTICLES_PER_REQUEST
    imported,  \* server.py has been imported (its last lines have run)
    client,    \* the global client of server.py: None or a MediumClient
    workers,   \* the callers the transport serves at a time
    pc,        \* per caller: idle, the upstream call it waits in, or done
    call,      \* per caller: the layer entered, the operation, its arguments
    upcalls,   \* per caller: the upstream calls issued so far, in order, each
               \* with how it ended (pending, returned, or the exception raised)
    held,      \* per caller: what the primary upstream call produced
    result,    \* per caller: what the access-layer operation returned or raised
    reply,     \* per caller: what the tool returned or raised
    eval       \* the call of a function of formatting.py or config.py made
               \* on its own: the function, its argument, what it gave

vars ==
    <<environ, imported, client, workers, pc, call, upcalls, held, result, reply,
      eval>>

Nothing == [kind |-> "none"]
NoCall == [layer |-> "none"]
NoEval == [fn |-> "none"]

Init ==
    /\ environ \in Environments
    /\ imported = FALSE
    /\ client = NoneV
    /\ workers = {"w1"}
    /\ pc = [w \in workers |-> "idle"]
    /\ call = [w \in workers |-> NoCall]
    /\ upcalls = [w \in workers |-> <<>>]
    /\ held = [w \in workers |-> NoneV]
    /\ result = [w \in workers |-> Nothing]
    /\ reply = [w \in workers |-> Nothing]
    /\ eval = NoEval

\* server.py, lines 234-239: the import of the module initializes the client
\* and swallows the failure
ImportServer ==
    /\ ~imported
    /\ imported' = TRUE
    /\ client' = initialize_client(environ)
    /\ UNCHANGED <<environ, workers, pc, call, upcalls, held, result, reply, eval>>

----------------------------------------------------------------------------
(* The steps of an invocation *)

\* the context text each operation gives _handle_api_error
Context(op, args) ==
    CASE op = "get_user_info" -> <<"getting user info for ">> \o args.username
      [] op = "get_user_articles" -> <<"getting articles for user ">> \o args.username
      [] op = "get_article_content" ->
            <<"getting content for article ">> \o args.article_id
      [] op = "get_top_feeds" -> <<"getting top feeds for tag ">> \o PyStr(args.tag)
      [] OTHER -> <<"searching articles with query: ">> \o args.query

\* an except clause that lets a failure it cannot classify through
Try_lets_unclassified_escape(outcome, context) ==
    IF outcome.kind = "raise"
       /\ handle_api_error(outcome.exc, context).status_code # NoneV
    THEN Raised(handle_api_error(outcome.exc, context))
    ELSE outcome

\* a handler that returns after a "not found" failure, so that the
\* `return None` after it is reached
Try_returns_none(outcome, context) ==
    IF outcome.kind = "raise"
    THEN IF handle_api_error(outcome.exc, context).status_code = IntV(404)
         THEN Returned(NoneV)
         ELSE Raised(handle_api_error(outcome.exc, context))
    ELSE outcome

\* try: ... except Exception as e: self._handle_api_error(e, context)
Try(outcome, context) ==
    IF outcome.kind = "raise"
    THEN Raised(handle_api_error(outcome.exc, context))
    ELSE outcome

\* a limit that forgets the ceiling
article_limit_ignores_ceiling(count) == count

\* article_limit = min(count, self.config.max_articles_per_request)
article_limit(count) == Min(count, client.config.max_articles_per_request)

\* an upstream call as it is issued
UpstreamCall(fn, fnargs) == [fn |-> fn, args |-> fnargs, outcome |-> Nothing]

\* the calls with the end of the last one recorded
Ended(calls, response) ==
    [calls EXCEPT ![Len(calls)].outcome =
        IF response.kind = "raise" THEN response ELSE [kind |-> "return"]]

\* a tool raises before it enters the access layer
Reject(w, op, args, exc) ==
    /\ pc' = [pc EXCEPT ![w] = "done"]
    /\ call' = [call EXCEPT ![w] = [layer |-> "tool", op |-> op, args |-> args]]
    /\ reply' = [reply EXCEPT ![w] = ToolRaise(exc)]
    /\ UNCHANGED <<environ, imported, client, workers, upcalls, held, result, eval>>

\* an access-layer operation is entered and issues its primary upstream call
Enter(w, layer, op, args, fn, fnargs) ==
    /\ pc' = [pc EXCEPT ![w] = fn]
    /\ call' = [call EXCEPT ![w] = [layer |-> layer, op |-> op, args |-> args]]
    /\ upcalls' = [upcalls EXCEPT ![w] = <<UpstreamCall(fn, fnargs)>>]
    /\ UNCHANGED <<environ, imported, client, workers, held, result, reply, eval>>

\* a tool that calls ensure_client before it validates its arguments
Tool_checks_client_first(w, op, args, invalid, fn, fnargs) ==
    IF ensure_client(client).kind = "raise"
    THEN Reject(w, op, args, ensure_client(client).exc)
    ELSE IF invalid # NoneV THEN Reject(w, op, args, invalid)
    ELSE Enter(w, "tool", op, args, fn, fnargs)

\* a tool: its validation, ensure_client, then the access-layer operation
Tool(w, op, args, invalid, fn, fnargs) ==
    IF invalid # NoneV THEN Reject(w, op, args, invalid)
    ELSE IF ensure_client(client).kind = "raise"
    THEN Reject(w, op, args, ensure_client(client).exc)
    ELSE Enter(w, "tool", op, args, fn, fnargs)

\* an operation that drops the client of the server when the upstream
\* refuses the key
Finish_drops_client(w, response, outcome, list) ==
    /\ pc' = [pc EXCEPT ![w] = "done"]
    /\ result' = [result EXCEPT ![w] = outcome]
    /\ held' = [held EXCEPT ![w] = list]
    /\ reply' = [reply EXCEPT ![w] =
            IF call[w].layer # "tool" THEN Nothing
            ELSE IF outcome.kind = "raise" THEN ToolRaise(outcome.exc)
            ELSE ToolReturn(call[w].op, outcome.value)]
    /\ upcalls' = [upcalls EXCEPT ![w] = Ended(@, response)]
    /\ client' = IF outcome.kind = "raise" /\ outcome.exc.status_code = IntV(401)
                 THEN NoneV ELSE client
    /\ UNCHANGED <<environ, imported, workers, call, eval>>

\* an operation that issues a failed upstream call once more
Finish_retries(w, response, outcome, list) ==
    IF response.kind = "raise" /\ Len(upcalls[w]) = 1
    THEN /\ upcalls' = [upcalls EXCEPT ![w] =
                Append(Ended(@, response),
                       UpstreamCall(upcalls[w][1].fn, upcalls[w][1].args))]
         /\ UNCHANGED <<environ, imported, client, workers, pc, call, held,
                        result, reply, eval>>
    ELSE /\ pc' = [pc EXCEPT ![w] = "done"]
         /\ result' = [result EXCEPT ![w] = outcome]
         /\ held' = [held EXCEPT ![w] = list]
         /\ reply' = [reply EXCEPT ![w] =
                 IF call[w].layer # "tool" THEN Nothing
                 ELSE IF outcome.kind = "raise" THEN ToolRaise(outcome.exc)
                 ELSE ToolReturn(call[w].op, outcome.value)]
         /\ upcalls' = [upcalls EXCEPT ![w] = Ended(@, response)]
         /\ UNCHANGED <<environ, imported, client, workers, call, eval>>

\* the pending upstream call ends with `response` and the access-layer
\* operation with `outcome`; a tool that called it serializes what it returned
\* or wraps what it raised
Finish(w, response, outcome, list) ==
    /\ pc' = [pc EXCEPT ![w] = "done"]
    /\ result' = [result EXCEPT ![w] = outcome]
    /\ held' = [held EXCEPT ![w] = list]
    /\ reply' = [reply EXCEPT ![w] =
            IF call[w].layer # "tool" THEN Nothing
            ELSE IF outcome.kind = "raise" THEN ToolRaise(outcome.exc)
            ELSE ToolReturn(call[w].op, outcome.value)]
    /\ upcalls' = [upcalls EXCEPT ![w] = Ended(@, response)]
    /\ UNCHANGED <<environ, imported, client, workers, call, eval>>

\* an operation that issues its second upstream call twice
Proceed_twice(w, fn, fnargs, list) ==
    /\ pc' = [pc EXCEPT ![w] = fn]
    /\ upcalls' = [upcalls EXCEPT ![w] =
            Append(Append(Ended(@, [kind |-> "return"]),
                          [fn |-> fn, args |-> fnargs, outcome |-> [kind |-> "return"]]),
                   UpstreamCall(fn, fnargs))]
    /\ held' = [held EXCEPT ![w] = list]
    /\ UNCHANGED <<environ, imported, client, workers, call, result, reply, eval>>

\* the pending upstream call returns and the operation goes on to a second one
Proceed(w, fn, fnargs, list) ==
    /\ pc' = [pc EXCEPT ![w] = fn]
    /\ upcalls' = [upcalls EXCEPT ![w] =
            Append(Ended(@, [kind |-> "return"]), UpstreamCall(fn, fnargs))]
    /\ held' = [held EXCEPT ![w] = list]
    /\ UNCHANGED <<environ, imported, client, workers, call, result, reply, eval>>

Ready(w) == imported /\ w \in workers /\ pc[w] = "idle"

----------------------------------------------------------------------------
(* server.py: the tools *)

get_user_info(w) ==
    /\ Ready(w)
    /\ \E username \in Usernames :
          Tool(w, "get_user_info", [username |-> username], NoneV,
               "user", [username |-> username])

get_user_articles(w) ==
    /\ Ready(w)
    /\ \E username \in Usernames, count \in Counts :
          Tool(w, "get_user_articles", [username |-> username, count |-> count],
               get_user_articles_validation(count),
               "user", [username |-> username])

get_article_content(w) ==
    /\ Ready(w)
    /\ \E article_id \in ArticleKeys, format \in Formats :
          Tool(w, "get_article_content",
               [article_id |-> article_id, content_format |-> format],
               get_article_content_validation(format),
               "article", [article_id |-> article_id])

get_top_feeds(w) ==
    /\ Ready(w)
    /\ \E tag \in Tags, mode \in Modes, count \in Counts :
          Tool(w, "get_top_feeds", [tag |-> tag, mode |-> mode, count |-> count],
               get_top_feeds_validation(mode, count),
               "topfeeds", [tag |-> normalize_tag(tag), mode |-> mode])

search_articles(w) ==
    /\ Ready(w)
    /\ \E query \in Queries, count \in Counts :
          Tool(w, "search_articles", [query |-> query, count |-> count],
               search_articles_validation(query, count),
               "search_articles", [query |-> query])

----------------------------------------------------------------------------
(* client.py: the operations called directly, as the package's callers and *)
(* tests do, on the MediumClient the server holds                          *)

Direct(w) == Ready(w) /\ client # NoneV

MediumClient_get_user_info(w) ==
    /\ Direct(w)
    /\ \E username \in Usernames :
          Enter(w, "client", "get_user_info", [username |-> username],
                "user", [username |-> username])

MediumClient_get_user_articles(w) ==
    /\ Direct(w)
    /\ \E username \in Usernames, count \in ClientCounts :
          Enter(w, "client", "get_user_articles",
                [username |-> username, count |-> count],
                "user", [username |-> username])

MediumClient_get_article_content(w) ==
    /\ Direct(w)
    /\ \E article_id \in ArticleKeys, format \in Formats :
          Enter(w, "client", "get_article_content",
                [article_id |-> article_id, content_format |-> format],
                "article", [article_id |-> article_id])

MediumClient_get_top_feeds(w) ==
    /\ Direct(w)
    /\ \E tag \in ClientTags, mode \in Modes, count \in ClientCounts :
          Enter(w, "client", "get_top_feeds",
                [tag |-> tag, mode |-> mode, count |-> count],
                "topfeeds", [tag |-> normalize_tag(tag), mode |-> mode])

MediumClient_search_articles(w) ==
    /\ Direct(w)
    /\ \E query \in Queries, count \in ClientCounts :
          Enter(w, "client", "search_articles", [query |-> query, count |-> count],
                "search_articles", [query |-> query])

----------------------------------------------------------------------------
(* client.py: each operation from the point its upstream call comes back *)

\* self.medium.user(username=username) returns or raises
user_returns(w) ==
    /\ pc[w] = "user"
    /\ LET op == call[w].op
           args == call[w].args
           context == Context(op, args)
       IN  \E response \in UserResponses(args.username) :
              IF response.kind = "raise"
              THEN Finish(w, response, Try(response, context), NoneV)
              ELSE IF op = "get_user_info"
              THEN Finish(w, response,
                          Try(get_user_info_record(response.value), context),
                          response.value)
              ELSE IF response.value.t # "obj"
              THEN Finish(w, response,
                          Try(Raised(AttributeError(response.value, "fetch_articles")),
                              context), NoneV)
              ELSE Proceed(w, "User.fetch_articles", NoAttrs, NoneV)

\* user.fetch_articles() returns, with user.articles filled, or raises
user_fetch_articles_returns(w) ==
    /\ pc[w] = "User.fetch_articles"
    /\ LET args == call[w].args
           context == Context(call[w].op, args)
       IN  \/ \E failure \in Failures : Finish(w, failure, Try(failure, context), NoneV)
           \/ \E stubs \in ArticleLists :
                 LET articles == [i \in 1..Len(stubs) |-> Hydrated(stubs[i])]
                     taken == Slice(articles, article_limit(args.count))
                 IN  Finish(w, Returned(ListV(articles)),
                            Try(Records([i \in 1..Len(taken) |->
                                    get_user_articles_record(taken[i],
                                                             StrV(args.username))]),
                                context),
                            ListV(articles))

\* self.medium.article(article_id=article_id) returns or raises
article_returns(w) ==
    /\ pc[w] = "article"
    /\ LET args == call[w].args
           context == Context(call[w].op, args)
       IN  \/ \E failure \in Failures : Finish(w, failure, Try(failure, context), NoneV)
           \/ \E article \in ArticleObjects :
                 Finish(w, Returned(article),
                        Try(get_article_content_record(article, args.content_format),
                            context),
                        article)

\* self.medium.topfeeds(tag=..., mode=...) returns or raises
topfeeds_returns(w) ==
    /\ pc[w] = "topfeeds"
    /\ LET args == call[w].args
           context == Context(call[w].op, args)
       IN  \/ \E failure \in Failures : Finish(w, failure, Try(failure, context), NoneV)
           \/ \E results \in ArticleLists :
                 Proceed(w, "fetch_articles",
                         [articles |-> Slice(results, article_limit(args.count)),
                          html_fullpage |-> FALSE],
                         ListV(results))

\* self.medium.search_articles(query=query) returns or raises
search_articles_returns(w) ==
    /\ pc[w] = "search_articles"
    /\ LET args == call[w].args
           context == Context(call[w].op, args)
       IN  \/ \E failure \in Failures : Finish(w, failure, Try(failure, context), NoneV)
           \/ \E results \in ArticleLists :
                 Proceed(w, "fetch_articles",
                         [articles |-> Slice(results, article_limit(args.count)),
                          html_fullpage |-> FALSE],
                         ListV(results))

\* self.medium.fetch_articles(results, html_fullpage=False) returns, with
\* the articles of results filled in place, or raises
fetch_articles_returns(w) ==
    /\ pc[w] = "fetch_articles"
    /\ LET op == call[w].op
           context == Context(op, call[w].args)
           stubs == upcalls[w][2].args.articles
           results == [i \in 1..Len(stubs) |-> Hydrated(stubs[i])]
       IN  \/ \E failure \in Failures : Finish(w, failure, Try(failure, context), held[w])
           \/ Finish(w, Returned(ListV(results)),
                     Try(Records([i \in 1..Len(results) |->
                             IF op = "get_top_feeds"
                             THEN get_top_feeds_record(results[i])
                             ELSE search_articles_record(results[i])]),
                         context),
                     held[w])

\* the caller takes the outcome of the invocation
Return(w) ==
    /\ pc[w] = "done"
    /\ pc' = [pc EXCEPT ![w] = "idle"]
    /\ call' = [call EXCEPT ![w] = NoCall]
    /\ upcalls' = [upcalls EXCEPT ![w] = <<>>]
    /\ held' = [held EXCEPT ![w] = NoneV]
    /\ result' = [result EXCEPT ![w] = Nothing]
    /\ reply' = [reply EXCEPT ![w] = Nothing]
    /\ UNCHANGED <<environ, imported, client, workers, eval>>

Next ==
    \/ ImportServer
    \/ \E w \in workers : get_user_info(w)
    \/ \E w \in workers : get_user_articles(w)
    \/ \E w \in workers : get_article_content(w)
    \/ \E w \in workers : get_top_feeds(w)
    \/ \E w \in workers : search_articles(w)
    \/ \E w \in workers : MediumClient_get_user_info(w)
    \/ \E w \in workers : MediumClient_get_user_articles(w)
    \/ \E w \in workers : MediumClient_get_article_content(w)
    \/ \E w \in workers : MediumClient_get_top_feeds(w)
    \/ \E w \in workers : MediumClient_search_articles(w)
    \/ \E w \in workers : user_returns(w)
    \/ \E w \in workers : user_fetch_articles_returns(w)
    \/ \E w \in workers : article_returns(w)
    \/ \E w \in workers : topfeeds_returns(w)
    \/ \E w \in workers : search_articles_returns(w)
    \/ \E w \in workers : fetch_articles_returns(w)
    \/ \E w \in workers : Return(w)

Spec == Init /\ [][Next]_vars

----------------------------------------------------------------------------
(* server.py: several callers at a time. The transport may run the tools   *)
(* concurrently; a tool is then interleaved with the others at its         *)
(* upstream call, where it blocks.                                         *)

CallerNames == <<"w1", "w2", "w3", "w4">>
Callers == {CallerNames[i] : i \in 1..MaxCallers}

\* the environments of the concurrent runs: one that gives a client and one
\* that does not
ConcurrentEnvironments ==
    {[RAPIDAPI_KEY |-> StrV(<<" ">> \o Rep("k", 10) \o <<" ">>),
      MAX_ARTICLES_PER_REQUEST |-> NoneV],
     [RAPIDAPI_KEY |-> NoneV, MAX_ARTICLES_PER_REQUEST |-> NoneV]}

InitConcurrent ==
    /\ environ \in ConcurrentEnvironments
    /\ imported = FALSE
    /\ client = NoneV
    /\ workers = Callers
    /\ pc = [w \in workers |-> "idle"]
    /\ call = [w \in workers |-> NoCall]
    /\ upcalls = [w \in workers |-> <<>>]
    /\ held = [w \in workers |-> NoneV]
    /\ result = [w \in workers |-> Nothing]
    /\ reply = [w \in workers |-> Nothing]
    /\ eval = NoEval

\* the tools with one upstream call, interleaved
NextConcurrent ==
    \/ ImportServer
    \/ \E w \in workers : get_user_info(w)
    \/ \E w \in workers : get_article_content(w)
    \/ \E w \in workers : user_returns(w)
    \/ \E w \in workers : article_returns(w)
    \/ \E w \in workers : Return(w)

SpecConcurrent == InitConcurrent /\ [][NextConcurrent]_vars

----------------------------------------------------------------------------
(* formatting.py and config.py: the functions called on their own *)

\* the characters of the tags: a capital, a small letter, a space, a hyphen,
\* a digit
TagChars == {"A", "b", " ", "-", "1"}

\* the tags given to normalize_tag: None and every text of TagChars
TagInputs ==
    {NoneV} \cup {StrV(s) : s \in UNION {[1..n -> TagChars] : n \in 0..MaxTagLen}}

\* the values given to convert_to_string
FalsyValues ==
    {NoneV, StrV(<<>>), IntV(0), BoolV(FALSE), ListV(<<>>), FloatV(0)}
TruthyValues ==
    {StrV(<<"x">>), StrV(<<"h", "e", "l", "l", "o">>), IntV(42), FloatV(25),
     BoolV(TRUE), ListV(<<IntV(1), IntV(2), IntV(3)>>)}
ObjectValues ==
    {DateTimeV(Stamp),
     ObjV("MockUser", [username |-> StrV(<<"testuser">>)]),
     ObjV("MockUser", [username |-> NoneV]),
     ObjV("MockUser", [username |-> StrV(<<>>)]),
     ObjV("MockDate", [isoformat |-> StrV(<<"2024-01-15">>)]),
     ObjV("ComplexObject", [__str__ |-> StrV(<<"ComplexObject(test)">>)]),
     ObjV("UserWithStr", [username |-> StrV(<<"priorityuser">>),
                          __str__ |-> StrV(<<"should not be used">>)]),
     ObjV("DateWithStr", [isoformat |-> StrV(<<"2024-01-15T12:00:00">>),
                          __str__ |-> StrV(<<"should not be used">>)]),
     ObjV("Member", [username |-> StrV(<<"member">>),
                     isoformat |-> StrV(<<"2024-01-15">>)]),
     ObjV("Member", [username |-> StrV(<<>>),
                     isoformat |-> StrV(<<"2024-01-15">>),
                     __str__ |-> StrV(<<"should not be used">>)])}
Values == FalsyValues \cup TruthyValues \cup ObjectValues

\* the arguments given to MediumMCPConfig(...): a key, and a ceiling or none
KeyTexts == {e.RAPIDAPI_KEY.v : e \in {x \in Environments : x.RAPIDAPI_KEY # NoneV}}
Ceilings == {NoneV, IntV(0), IntV(1), IntV(3), IntV(50), IntV(100), IntV(101)}

\* the functions are pure: a run of the model follows one evaluation
Fresh == eval = NoEval

Evaluated(fn, arg, out) ==
    /\ eval' = [fn |-> fn, arg |-> arg, out |-> out]
    /\ UNCHANGED <<environ, imported, client, workers, pc, call, upcalls, held,
                   result, reply>>

\* normalize_tag(tag)
Call_normalize_tag ==
    /\ Fresh
    /\ \E tag \in TagInputs :
          Evaluated("normalize_tag", [tag |-> tag, canonicalized |-> FALSE],
                    normalize_tag(tag))

\* normalize_tag(normalize_tag(tag)): the result is canonicalized again
Call_normalize_tag_again ==
    /\ eval.fn = "normalize_tag"
    /\ ~eval.arg.canonicalized
    /\ Evaluated("normalize_tag", [tag |-> eval.out, canonicalized |-> TRUE],
                 normalize_tag(eval.out))

\* convert_to_string(value)
Call_convert_to_string ==
    /\ Fresh
    /\ \E value \in Values :
          Evaluated("convert_to_string", [value |-> value], convert_to_string(value))

\* MediumMCPConfig(rapidapi_key=key) and
\* MediumMCPConfig(rapidapi_key=key, max_articles_per_request=ceiling)
Call_MediumMCPConfig ==
    /\ Fresh
    /\ \E key \in KeyTexts, ceiling \in Ceilings :
          Evaluated("MediumMCPConfig",
                    [rapidapi_key |-> key, max_articles_per_request |-> ceiling],
                    MediumMCPConfig(key, IF ceiling = NoneV THEN DefaultCeiling
                                         ELSE ceiling.v))

\* MediumMCPConfig.from_env()
Call_from_env ==
    /\ Fresh
    /\ Evaluated("from_env", environ, from_env(environ))

NextFunctions ==
    \/ Call_normalize_tag
    \/ Call_normalize_tag_again
    \/ Call_convert_to_string
    \/ Call_MediumMCPConfig
    \/ Call_from_env

SpecFunctions == Init /\ [][NextFunctions]_vars

----------------------------------------------------------------------------
(* Properties *)

\* the invocation of w is over
Done(w) == pc[w] = "done"

\* the access-layer operation of w has returned
Succeeded(w) == Done(w) /\ result[w].kind = "return"

\* the access-layer operation of w has raised
Failed(w) == Done(w) /\ result[w].kind = "raise"

ListOperations == {"get_user_articles", "get_top_feeds", "search_articles"}

\* the last upstream call of w raised
UpstreamRaised(w) ==
    upcalls[w] # <<>> /\ upcalls[w][Len(upcalls[w])].outcome.kind = "raise"

\* the text of the failure the last upstream call of w raised
FailureText(w) == upcalls[w][Len(upcalls[w])].outcome.exc.msg

\* the identifiers of a list of articles or of records, in order
Identifiers(items) ==
    [i \in 1..Len(items) |->
        IF "attrs" \in DOMAIN items[i] THEN items[i].attrs["article_id"]
        ELSE items[i].article_id]

\* the n first items of a sequence, for n >= 0
FirstN(items, n) == [i \in 1..n |-> items[i]]

Smallest(a, b, c) ==
    IF a <= b /\ a <= c THEN a ELSE IF b <= c THEN b ELSE c

\* the number of records a list operation is to return, and whether it
\* returned the first so many upstream items in upstream order
ReturnsFirstMin(w) ==
    LET n == Smallest(call[w].args.count,
                      client.config.max_articles_per_request,
                      Len(held[w].v))
    IN  /\ Len(result[w].value.v) = n
        /\ Identifiers(result[w].value.v) = FirstN(Identifiers(held[w].v), n)

\* C1 as stated: for any requested count c (a negative one too) a list
\* operation that succeeds returns exactly min(c, m, available) records, the
\* first so many upstream items in upstream order.
C1_AnyCount ==
    \A w \in workers :
        Succeeded(w) /\ call[w].op \in ListOperations => ReturnsFirstMin(w)

\* C1, amended: for any requested count c >= 0 a list operation that succeeds
\* returns exactly min(c, m, available) records, the first so many upstream
\* items in upstream order.
C1_MinOfCountCeilingAvailable ==
    \A w \in workers :
        Succeeded(w) /\ call[w].op \in ListOperations /\ call[w].args.count >= 0
            => ReturnsFirstMin(w)

\* 3 authored articles requested, ceiling 2, 1 available: exactly 1 returned
C1_Witness ==
    \E w \in workers :
        /\ Succeeded(w)
        /\ call[w].op = "get_user_articles"
        /\ call[w].args.count = 3
        /\ client.config.max_articles_per_request = 2
        /\ Len(held[w].v) = 1
        /\ Len(result[w].value.v) = 1

\* the handle of the invocation is one the upstream has no record of
UnknownHandle(w) == call[w].args.username \notin KnownUsernames

\* C2: the get_user_info tool, called with an initialized client for a handle
\* the upstream has no record of, returns the JSON text null and raises
\* nothing.
C2_UnknownHandleGivesNull ==
    \A w \in workers :
        /\ Done(w)
        /\ call[w].layer = "tool"
        /\ call[w].op = "get_user_info"
        /\ client # NoneV
        /\ UnknownHandle(w)
        => reply[w] = Returned([j |-> "null"])

\* C3: an access-layer operation ends with a returned record or list, or by
\* raising a MediumError; when its upstream call raised, or the record could
\* not be built, it raises a MediumError and the original failure does not
\* escape.
C3_OnlyMediumErrorEscapes ==
    \A w \in workers :
        Done(w) /\ upcalls[w] # <<>> =>
            /\ result[w].kind \in {"return", "raise"}
            /\ (result[w].kind = "raise" => result[w].exc.type = "MediumError")
            /\ UpstreamRaised(w) => result[w].kind = "raise"
            /\ (/\ call[w].op = "get_article_content"
                /\ held[w] # NoneV
                /\ call[w].args.content_format = StrV(<<"html">>)
                /\ Missing(held[w], "html"))
               => result[w].kind = "raise"

\* an upstream call raised and the operation raised a MediumError
C3_Witness ==
    \E w \in workers :
        /\ Failed(w)
        /\ UpstreamRaised(w)
        /\ call[w].op = "search_articles"
        /\ result[w].exc.type = "MediumError"

RateLimitText == <<"r", "a", "t", "e", " ", "l", "i", "m", "i", "t">>
UnauthorizedText == <<"u", "n", "a", "u", "t", "h", "o", "r", "i", "z", "e", "d">>
NotFoundText == <<"n", "o", "t", " ", "f", "o", "u", "n", "d">>

\* "Not Found: rate limit"
NotFoundAndRateLimit ==
    <<"N", "o", "t", " ", "F", "o", "u", "n", "d", ":", " ",
      "r", "a", "t", "e", " ", "l", "i", "m", "i", "t">>

\* "not found,unauthorized"
NotFoundAndUnauthorized ==
    <<"n", "o", "t", " ", "f", "o", "u", "n", "d", ",",
      "u", "n", "a", "u", "t", "h", "o", "r", "i", "z", "e", "d">>

\* C4: the classifier of a failure is that of the first of "rate limit" (429),
\* "unauthorized" (401), "not found" (404) that its lowercased text contains,
\* and none when it contains none of them, in every operation; a text with
\* "not found" and "rate limit" gives 429, one with "not found" and
\* "unauthorized" gives 401, whatever the case of the letters.
C4_FirstMatchClassification ==
    \A w \in workers :
        Failed(w) /\ UpstreamRaised(w) =>
            LET text == FailureText(w)
                lowered == Lower(text)
                rate == Contains(lowered, RateLimitText)
                unauthorized == Contains(lowered, UnauthorizedText)
                notfound == Contains(lowered, NotFoundText)
                code == result[w].exc.status_code
            IN  /\ rate => code = IntV(429)
                /\ ~rate /\ unauthorized => code = IntV(401)
                /\ ~rate /\ ~unauthorized /\ notfound => code = IntV(404)
                /\ ~rate /\ ~unauthorized /\ ~notfound => code = NoneV
                /\ text = NotFoundAndRateLimit => code = IntV(429)
                /\ text = NotFoundAndUnauthorized => code = IntV(401)
                /\ text = <<"U", "N", "A", "U", "T", "H", "O", "R", "I", "Z", "E", "D">>
                       => code = IntV(401)

\* a failure whose text holds "Not Found" and "rate limit" was classified 429
C4_Witness ==
    \E w \in workers :
        /\ Failed(w)
        /\ UpstreamRaised(w)
        /\ FailureText(w) = NotFoundAndRateLimit
        /\ result[w].exc.status_code = IntV(429)

\* C5: every MediumError of the classification carries a message and the
\* context of the call under details["context"]; an unclassified one has no
\* status code, a message that contains the text of the original failure, and
\* that text under details["original_error"].
C5_ErrorCarriesContext ==
    \A w \in workers :
        Failed(w) =>
            LET e == result[w].exc
            IN  /\ e.message # <<>>
                /\ "context" \in DOMAIN e.details
                /\ e.details.context = Context(call[w].op, call[w].args)
                /\ e.status_code \in {IntV(429), IntV(401), IntV(404), NoneV}
                /\ e.status_code = NoneV =>
                      /\ "original_error" \in DOMAIN e.details
                      /\ Contains(e.message, e.details.original_error)
                      /\ UpstreamRaised(w) => e.details.original_error = FailureText(w)

\* a failure "boom" was left unclassified
C5_Witness ==
    \E w \in workers :
        /\ Failed(w)
        /\ UpstreamRaised(w)
        /\ FailureText(w) = <<"b", "o", "o", "m">>
        /\ result[w].exc.status_code = NoneV
        /\ result[w].exc.details.original_error = <<"b", "o", "o", "m">>

\* the tool invocation of w was given a count outside [1, 100]
CountOutOfRange(w) ==
    /\ call[w].layer = "tool"
    /\ call[w].op \in ListOperations
    /\ (call[w].args.count < 1 \/ call[w].args.count > 100)

\* the tool of w raised, and neither the access layer nor an upstream call
\* was started
RejectedBeforeDelegation(w) ==
    /\ Done(w)
    /\ reply[w].kind = "raise"
    /\ result[w] = Nothing
    /\ upcalls[w] = <<>>

\* the tool of w raised the failure with this text
RejectedWith(w, text) ==
    RejectedBeforeDelegation(w) /\ reply[w].exc.msg = <<"Error: ", text>>

\* every character of the text is whitespace
Blank(text) == \A i \in 1..Len(text) : text[i] \in {" ", "\t", "\n", "\r"}

\* a tool invocation with count 1 or 100 is not rejected for its count
BoundaryCountsAccepted ==
    \A w \in workers :
        /\ call[w].layer = "tool"
        /\ call[w].op \in ListOperations
        /\ call[w].args.count \in {1, 100}
        => /\ reply[w].kind = "raise" =>
                 reply[w].exc.msg # <<"Error: ", "Count must be between 1 and 100">>
           /\ (client # NoneV /\ call[w].op = "get_user_articles")
                 => upcalls[w] # <<>>

\* C6 as stated: a tool called with a count outside [1, 100] is rejected with
\* the failure "Count must be between 1 and 100" and starts neither the
\* access layer nor an upstream call; counts 1 and 100 are accepted.
C6_CountRejectedWithCountFailure ==
    /\ \A w \in workers :
          CountOutOfRange(w) =>
              RejectedWith(w, "Count must be between 1 and 100")
    /\ BoundaryCountsAccepted

\* C6, amended: a tool called with a count outside [1, 100] is rejected and
\* starts neither the access layer nor an upstream call; the failure is
\* "Count must be between 1 and 100", except that search_articles given a
\* blank query as well reports "Search query cannot be empty"; counts 1 and
\* 100 are accepted.
C6_CountRejectedBeforeDelegation ==
    /\ \A w \in workers :
          CountOutOfRange(w) =>
              IF call[w].op = "search_articles" /\ Blank(call[w].args.query)
              THEN RejectedWith(w, "Search query cannot be empty")
              ELSE RejectedWith(w, "Count must be between 1 and 100")
    /\ BoundaryCountsAccepted

\* get_top_feeds with count 101 was rejected without an upstream call, on an
\* initialized client
C6_Witness ==
    \E w \in workers :
        /\ client # NoneV
        /\ call[w].layer = "tool"
        /\ call[w].op = "get_top_feeds"
        /\ call[w].args.count = 101
        /\ RejectedWith(w, "Count must be between 1 and 100")

\* C7: search_articles with a query that is blank after trimming,
\* get_article_content with a format outside text, html, markdown, and
\* get_top_feeds with a mode outside the six modes are each rejected, and
\* start neither the access layer nor an upstream call.
C7_InvalidInputRejectedBeforeDelegation ==
    \A w \in workers :
        call[w].layer = "tool" =>
            /\ (call[w].op = "search_articles" /\ Blank(call[w].args.query))
                  => RejectedBeforeDelegation(w)
            /\ (/\ call[w].op = "get_article_content"
                /\ call[w].args.content_format.v
                       \notin {<<"text">>, <<"html">>, <<"markdown">>})
                  => RejectedBeforeDelegation(w)
            /\ (/\ call[w].op = "get_top_feeds"
                /\ call[w].args.mode \notin
                       {"hot", "new", "top_year", "top_month", "top_week", "top_all_time"})
                  => RejectedBeforeDelegation(w)

\* search_articles with a query of a space and a tab and a count in range
\* was rejected without an upstream call, on an initialized client
C7_Witness ==
    \E w \in workers :
        /\ client # NoneV
        /\ call[w].layer = "tool"
        /\ call[w].op = "search_articles"
        /\ call[w].args.query = <<" ", "\t">>
        /\ call[w].args.count = 3
        /\ RejectedWith(w, "Search query cannot be empty")

\* the upstream attribute that holds the representation a format names
Representation(format) ==
    CASE format = StrV(<<"text">>) -> "content"
      [] format = StrV(<<"html">>) -> "html"
      [] format = StrV(<<"markdown">>) -> "markdown"
      [] OTHER -> "none"

\* get_article_content has returned a record to w
BodyReturned(w) == Succeeded(w) /\ call[w].op = "get_article_content"

\* C8 as stated: for each format s of text, html, markdown, a successful
\* get_article_content(id, s) returns a record whose content_format is s and
\* whose content equals the upstream field s selects.
C8_ContentEqualsSelectedField ==
    \A w \in workers :
        BodyReturned(w) /\ Representation(call[w].args.content_format) # "none" =>
            /\ result[w].value.content_format = call[w].args.content_format
            /\ result[w].value.content =
                   held[w].attrs[Representation(call[w].args.content_format)]

\* C8, amended: for each format s of text, html, markdown, a successful
\* get_article_content(id, s) returns a record whose content_format is s and
\* whose content equals the upstream field s selects, or is the empty string
\* when that field carries no value.
C8_ContentIsSelectedFieldOrEmpty ==
    \A w \in workers :
        BodyReturned(w) /\ Representation(call[w].args.content_format) # "none" =>
            LET field == held[w].attrs[Representation(call[w].args.content_format)]
            IN  /\ result[w].value.content_format = call[w].args.content_format
                /\ result[w].value.content =
                       IF field = NoneV THEN StrV(<<>>) ELSE field

\* format html returned the upstream HTML
C8_Witness ==
    \E w \in workers :
        /\ BodyReturned(w)
        /\ call[w].args.content_format = StrV(<<"html">>)
        /\ result[w].value.content_format = StrV(<<"html">>)
        /\ result[w].value.content = StrV(<<"<h1>Text 1</h1>">>)

\* C9: every ArticleContent that the access-layer get_article_content returns,
\* for any selector it is called with, has content and content_format,
\* a content_format that is one of text, html, markdown, and a content_format
\* that names the upstream representation the content was read from.
C9_FormatTagConsistent ==
    \A w \in workers :
        BodyReturned(w) =>
            /\ {"content", "content_format"} \subseteq DOMAIN result[w].value
            /\ Representation(result[w].value.content_format) # "none"
            /\ result[w].value.content =
                   OrEmpty(held[w].attrs[Representation(result[w].value.content_format)])

\* the tag was canonicalized character by character: lowercased, each space
\* a hyphen
Canonical(tag, received) ==
    /\ Len(received) = Len(tag)
    /\ \A i \in 1..Len(tag) :
          received[i] = IF tag[i] = " " THEN "-" ELSE LowerChar(tag[i])

\* C10: get_top_feeds gives the upstream feed call the canonicalized tag and
\* the mode unchanged: "Data Science" is received as "data-science", an
\* absent tag as absent, an empty tag as the empty string.
C10_FeedCallReceivesCanonicalTag ==
    \A w \in workers :
        call[w].layer # "none" /\ call[w].op = "get_top_feeds" /\ upcalls[w] # <<>> =>
            LET sent == upcalls[w][1]
                tag == call[w].args.tag
            IN  /\ sent.fn = "topfeeds"
                /\ sent.args.mode = call[w].args.mode
                /\ tag = NoneV => sent.args.tag = NoneV
                /\ tag = StrV(<<>>) => sent.args.tag = StrV(<<>>)
                /\ tag = StrV(DataScience) =>
                       sent.args.tag =
                           StrV(<<"d", "a", "t", "a", "-",
                                  "s", "c", "i", "e", "n", "c", "e">>)
                /\ tag # NoneV =>
                       sent.args.tag.t = "str" /\ Canonical(tag.v, sent.args.tag.v)

\* the feed call for tag "Data Science" received "data-science"
C10_Witness ==
    \E w \in workers :
        /\ call[w].layer # "none"
        /\ call[w].op = "get_top_feeds"
        /\ call[w].args.tag = StrV(DataScience)
        /\ upcalls[w] # <<>>
        /\ upcalls[w][1].args.tag =
               StrV(<<"d", "a", "t", "a", "-", "s", "c", "i", "e", "n", "c", "e">>)

----------------------------------------------------------------------------
(* formatting.py: the claims about normalize_tag and convert_to_string *)

\* normalize_tag has been evaluated
Normalized == eval.fn = "normalize_tag"

\* convert_to_string has been evaluated
Converted == eval.fn = "convert_to_string"

\* the capital letters of TagChars, each with its small letter
SmallOf(c) == IF c = "A" THEN "a" ELSE c

\* a text in the form of a canonical tag: no space and no capital letter
CanonicalText(s) == \A i \in 1..Len(s) : s[i] # " " /\ SmallOf(s[i]) = s[i]

\* C11: normalize_tag is idempotent: for every text x and for None,
\* normalize_tag(normalize_tag(x)) = normalize_tag(x), and a tag that is
\* canonical already is returned unchanged.
C11_NormalizeTagIdempotent ==
    /\ (Normalized /\ eval.arg.canonicalized) => eval.out = eval.arg.tag
    /\ (Normalized /\ eval.arg.tag # NoneV /\ CanonicalText(eval.arg.tag.v))
            => eval.out = eval.arg.tag

\* " A" was canonicalized to "-a", and "-a" again to "-a"
C11_Witness ==
    /\ Normalized
    /\ eval.arg.canonicalized
    /\ eval.arg.tag = StrV(<<"-", "a">>)
    /\ eval.out = StrV(<<"-", "a">>)

\* C12: normalize_tag maps a non-empty text to the text of the same length
\* in which, position by position, a space has become one hyphen, a capital
\* letter its small letter, and every other character is unchanged (no
\* trimming, no collapsing of spaces); "" maps to "" and None to None.
C12_NormalizeTagPositionwise ==
    Normalized =>
        IF eval.arg.tag = NoneV THEN eval.out = NoneV
        ELSE /\ eval.out.t = "str"
             /\ Len(eval.out.v) = Len(eval.arg.tag.v)
             /\ \A i \in 1..Len(eval.arg.tag.v) :
                    eval.out.v[i] =
                        IF eval.arg.tag.v[i] = " " THEN "-"
                        ELSE SmallOf(eval.arg.tag.v[i])

\* " A " was given and "-a-" returned
C12_Witness ==
    /\ Normalized
    /\ eval.arg.tag = StrV(<<" ", "A", " ">>)
    /\ eval.out = StrV(<<"-", "a", "-">>)

\* the value has neither a username attribute nor an isoformat method
Plain(value) == ~hasattr(value, "username") /\ ~hasattr(value, "isoformat")

\* C13: convert_to_string gives "" for None, for "" and for every falsy
\* value without username and isoformat (0, False, []), and str(value) for a
\* truthy one ("x" -> "x", 42 -> "42", True -> "True", [1,2,3] ->
\* "[1, 2, 3]"); the datetime 2024-01-15 10:30:45 gives
\* "2024-01-15T10:30:45".
C13_ConvertToStringValues ==
    Converted =>
        LET value == eval.arg.value
            out == eval.out
        IN  /\ (Plain(value) /\ ~Truthy(value)) => out = StrV(<<>>)
            /\ value = StrV(<<"x">>) => out = StrV(<<"x">>)
            /\ value = IntV(42) => out = StrV(<<"4", "2">>)
            /\ value = BoolV(TRUE) => out = StrV(<<"T", "r", "u", "e">>)
            /\ value = ListV(<<IntV(1), IntV(2), IntV(3)>>)
                    => out = StrV(<<"[", "1", ",", " ", "2", ",", " ", "3", "]">>)
            /\ (Plain(value) /\ Truthy(value)) => out = StrV(PyStr(value))
            /\ value = DateTimeV(Stamp) => out = StrV(Stamp)

\* 0 was given and "" returned
C13_Witness ==
    /\ Converted
    /\ eval.arg.value = IntV(0)
    /\ eval.out = StrV(<<>>)

\* C14: for a non-empty value, a non-empty username attribute wins over an
\* isoformat method, which wins over str(value).
C14_ConvertToStringPrecedence ==
    Converted =>
        LET value == eval.arg.value
        IN  /\ (hasattr(value, "username") /\ Truthy(value.attrs["username"]))
                    => eval.out = StrV(value.attrs["username"].v)
            /\ (/\ hasattr(value, "isoformat")
                 /\ ~(hasattr(value, "username") /\ Truthy(value.attrs["username"])))
                    => eval.out = StrV(isoformat(value))

\* a value with a username and an isoformat method gave its username
C14_Witness ==
    /\ Converted
    /\ hasattr(eval.arg.value, "username")
    /\ hasattr(eval.arg.value, "isoformat")
    /\ eval.out = StrV(<<"member">>)

----------------------------------------------------------------------------
(* server.py: failures of the tools, and the uninitialized client *)

\* a tool was called for w
ToolCalled(w) == call[w].layer = "tool"

\* the message of the MediumError of ensure_client
NotInitializedText ==
    <<"Medium MCP server not initialized. Check your RAPIDAPI_KEY environment variable.">>

\* the texts of the failures the validation of the tools raises
ValidationTexts ==
    {<<"Count must be between 1 and 100">>,
     <<"Format must be 'text', 'html', or 'markdown'">>,
     <<"Search query cannot be empty">>}
    \cup {<<"Invalid mode '", mode, "'. Must be one of: ",
            "hot, new, top_year, top_month, top_week, top_all_time">> :
                mode \in Modes}

\* C15: every tool turns a failure into an exception whose message is
\* "Medium API Error: " and the message of the MediumError (of the access
\* layer or of ensure_client), or "Error: " and the text of any other failure
\* (a rejected argument); no failure passes without one of the prefixes and
\* no tool returns a result after a failure.
C15_FailurePrefixes ==
    \A w \in workers :
        (ToolCalled(w) /\ Done(w)) =>
            /\ result[w].kind = "raise" =>
                  reply[w] = Raised(Exc("Exception",
                                 <<"Medium API Error: ">> \o result[w].exc.message))
            /\ result[w].kind = "return" => reply[w].kind = "return"
            /\ result[w] = Nothing =>
                  /\ reply[w].kind = "raise"
                  /\ \/ /\ Head(reply[w].exc.msg) = "Medium API Error: "
                        /\ Tail(reply[w].exc.msg) = NotInitializedText
                        /\ client = NoneV
                     \/ /\ Head(reply[w].exc.msg) = "Error: "
                        /\ Tail(reply[w].exc.msg) \in ValidationTexts

\* the upstream raised "boom" and the tool raised "Medium API Error: ..."
C15_Witness ==
    \E w \in workers :
        /\ ToolCalled(w)
        /\ Failed(w)
        /\ UpstreamRaised(w)
        /\ FailureText(w) = <<"b", "o", "o", "m">>
        /\ Head(reply[w].exc.msg) = "Medium API Error: "

\* the tool of w was rejected with the "not initialized" failure
NotInitializedFailure(w) ==
    /\ RejectedBeforeDelegation(w)
    /\ reply[w].exc.msg = <<"Medium API Error: ">> \o NotInitializedText

\* an argument of the tool called for w is one its validation rejects
InvalidArgument(w) ==
    \/ CountOutOfRange(w)
    \/ call[w].op = "search_articles" /\ Blank(call[w].args.query)
    \/ /\ call[w].op = "get_article_content"
       /\ call[w].args.content_format.v \notin {<<"text">>, <<"html">>, <<"markdown">>}
    \/ /\ call[w].op = "get_top_feeds"
       /\ call[w].args.mode \notin
              {"hot", "new", "top_year", "top_month", "top_week", "top_all_time"}

\* C16 as stated: while the client is None, every call of a tool fails with
\* the "not initialized" failure and makes no upstream call.
C16_EveryCallNotInitialized ==
    \A w \in workers :
        (client = NoneV /\ ToolCalled(w)) => NotInitializedFailure(w)

\* C16, amended: while the client is None, every call of a tool fails without
\* an upstream call; the failure is the "not initialized" one when the
\* arguments pass the validation of the tool, and the failure of the
\* validation ("Error: ...") when they do not.
C16_ValidCallNotInitialized ==
    \A w \in workers :
        (client = NoneV /\ ToolCalled(w)) =>
            /\ RejectedBeforeDelegation(w)
            /\ ~InvalidArgument(w) => NotInitializedFailure(w)
            /\ InvalidArgument(w) =>
                  /\ Head(reply[w].exc.msg) = "Error: "
                  /\ Tail(reply[w].exc.msg) \in ValidationTexts

\* get_top_feeds with valid arguments failed as not initialized
C16_Witness ==
    \E w \in workers :
        /\ client = NoneV
        /\ ToolCalled(w)
        /\ call[w].op = "get_top_feeds"
        /\ call[w].args.count = 3
        /\ NotInitializedFailure(w)

\* the credential of the environment is absent or fails validation
CredentialInvalid ==
    \/ environ.RAPIDAPI_KEY = NoneV
    \/ Len(Strip(environ.RAPIDAPI_KEY.v)) < 10

\* the configuration the client holds is valid
ConfigurationValid(config) ==
    /\ Len(config.rapidapi_key) >= 10
    /\ config.rapidapi_key = Strip(config.rapidapi_key)
    /\ config.max_articles_per_request \in 1..100

\* C17 as stated: with an absent or invalid credential the startup fails, so
\* the server never serves a tool call without a valid configuration.
C17_NeverServesWithoutConfiguration ==
    \A w \in workers :
        (imported /\ ToolCalled(w)) =>
            (client # NoneV /\ ConfigurationValid(client.config))

\* C17, amended: an absent or invalid credential makes the initialization
\* fail and leaves the client None; the import of the server goes on, and the
\* tools it then serves are each rejected before the access layer and the
\* upstream. A client that exists holds a valid configuration.
C17_InvalidCredentialLeavesClientNone ==
    /\ client # NoneV => (~CredentialInvalid /\ ConfigurationValid(client.config))
    /\ (imported /\ CredentialInvalid) =>
          /\ client = NoneV
          /\ \A w \in workers : ToolCalled(w) => RejectedBeforeDelegation(w)

\* the server was imported with a credential of 9 characters and a tool
\* call was rejected as not initialized
C17_Witness ==
    \E w \in workers :
        /\ imported
        /\ environ.RAPIDAPI_KEY = StrV(Rep("k", 9))
        /\ client = NoneV
        /\ NotInitializedFailure(w)

----------------------------------------------------------------------------
(* config.py: the configuration *)

\* MediumMCPConfig(...) or from_env() has been evaluated
Configured == eval.fn \in {"MediumMCPConfig", "from_env"}

\* the text neither begins nor ends with whitespace
Trimmed(text) ==
    text = <<>> \/ (Head(text) \notin Whitespace /\ text[Len(text)] \notin Whitespace)

\* C18: a configuration that is constructed has a credential of at least 10
\* characters, stored trimmed, and a ceiling in [1, 100] (3 when none is
\* supplied); the construction is rejected for a credential that is empty or
\* shorter than 10 characters after trimming and for a ceiling of 0 or 101,
\* and from_env is rejected when the credential variable is unset.
C18_ConfigurationValid ==
    /\ (Configured /\ eval.out.kind = "return") =>
          /\ Len(eval.out.value.rapidapi_key) >= 10
          /\ Trimmed(eval.out.value.rapidapi_key)
          /\ eval.out.value.max_articles_per_request \in 1..100
    /\ eval.fn = "MediumMCPConfig" =>
          /\ eval.out.kind = "return" =>
                /\ eval.out.value.rapidapi_key = Strip(eval.arg.rapidapi_key)
                /\ eval.out.value.max_articles_per_request =
                      IF eval.arg.max_articles_per_request = NoneV THEN 3
                      ELSE eval.arg.max_articles_per_request.v
          /\ Len(Strip(eval.arg.rapidapi_key)) < 10 => eval.out.kind = "raise"
          /\ eval.arg.max_articles_per_request \in {IntV(0), IntV(101)}
                => eval.out.kind = "raise"
          /\ (/\ Len(Strip(eval.arg.rapidapi_key)) >= 10
              /\ eval.arg.max_articles_per_request \in {NoneV, IntV(1), IntV(100)})
                => eval.out.kind = "return"
    /\ eval.fn = "from_env" =>
          /\ eval.arg.RAPIDAPI_KEY = NoneV => eval.out.kind = "raise"
          /\ (eval.out.kind = "return" /\ eval.arg.MAX_ARTICLES_PER_REQUEST = NoneV)
                => eval.out.value.max_articles_per_request = 3

\* a key of 10 characters between spaces, and no ceiling: the configuration
\* holds the 10 characters and the ceiling 3
C18_Witness ==
    /\ eval.fn = "MediumMCPConfig"
    /\ eval.arg.rapidapi_key = <<" ">> \o Rep("k", 10) \o <<" ">>
    /\ eval.arg.max_articles_per_request = NoneV
    /\ eval.out = Returned([rapidapi_key |-> Rep("k", 10),
                            max_articles_per_request |-> 3])

----------------------------------------------------------------------------
(* server.py, models.py: the records the tools serialize *)

\* the tool called for w has returned a JSON document
Serialized(w) == ToolCalled(w) /\ Done(w) /\ reply[w].kind = "return"

JsonText(text) == [j |-> "string", v |-> text]
JsonNumber(n) == [j |-> "number", v |-> n]
JsonNull == [j |-> "null"]
JsonFalse == [j |-> "false"]
JsonEmptyArray == [j |-> "array", items |-> <<>>]

\* the JSON member a UserProfile carries for an attribute the upstream omits
UserProfileDefaults ==
    [user_id |-> JsonText(<<>>), bio |-> JsonNull,
     following_count |-> JsonNumber(0), twitter_username |-> JsonNull,
     image_url |-> JsonNull, medium_member_at |-> JsonText(<<>>),
     is_writer_program_enrolled |-> JsonFalse, has_list |-> JsonFalse,
     is_suspended |-> JsonFalse]

\* the same for an ArticleSummary
ArticleSummaryDefaults ==
    [subtitle |-> JsonNull, published_at |-> JsonText(<<>>),
     last_modified_at |-> JsonText(<<>>), tags |-> JsonEmptyArray,
     topics |-> JsonEmptyArray, claps |-> JsonNumber(0), voters |-> JsonNumber(0),
     word_count |-> JsonNumber(0), reading_time |-> [j |-> "number", tenths |-> 0],
     responses_count |-> JsonNumber(0), unique_slug |-> JsonText(<<>>),
     is_locked |-> JsonFalse, is_shortform |-> JsonFalse,
     language |-> JsonText(<<"en">>)]

\* the same for an ArticleBody
ArticleBodyDefaults ==
    [subtitle |-> JsonNull, author |-> JsonText(<<>>),
     published_at |-> JsonText(<<>>)]

\* the upstream object omits the attribute: it lacks it or holds None in it
Omits(upstream, f) ==
    f \notin DOMAIN upstream.attrs \/ upstream.attrs[f].t = "None"

\* a JSON object has exactly the fields of the schema, and the default for
\* each attribute of `defaults` that the upstream object omits
Complete(json, schema, defaults, upstream) ==
    /\ json.j = "object"
    /\ DOMAIN json.members = DOMAIN schema
    /\ \A f \in DOMAIN defaults :
          Omits(upstream, f) => json.members[f] = defaults[f]

\* the upstream article behind the i-th record of the list w was returned
UpstreamArticle(w, i) ==
    IF call[w].op = "get_user_articles" THEN held[w].v[i]
    ELSE Hydrated(held[w].v[i])

\* what the tool of w returned is complete: the record, or the array of the
\* records (the empty array for an empty result)
SerializedComplete(w) ==
    CASE call[w].op = "get_user_info" ->
            Complete(reply[w].value, MediumUser, UserProfileDefaults, held[w])
      [] call[w].op = "get_article_content" ->
            Complete(reply[w].value, ArticleContent, ArticleBodyDefaults, held[w])
      [] OTHER ->
            /\ reply[w].value.j = "array"
            /\ Len(reply[w].value.items) = Len(result[w].value.v)
            /\ result[w].value.v = <<>> => reply[w].value = JsonEmptyArray
            /\ \A i \in 1..Len(reply[w].value.items) :
                  Complete(reply[w].value.items[i], MediumArticle,
                           ArticleSummaryDefaults, UpstreamArticle(w, i))

\* C19: every record a tool serializes has every field of its schema
\* (MediumUser, MediumArticle, ArticleContent), with the default where the
\* upstream object omits the attribute; no field is left out, and a list tool
\* whose access-layer result is empty serializes the empty array.
C19_EveryFieldSerialized ==
    \A w \in workers : Serialized(w) => SerializedComplete(w)

\* get_top_feeds serialized a record for an article that carries a title and
\* a url only: 18 fields, with 0 claps, no tags, and the language "en"
C19_Witness ==
    \E w \in workers :
        /\ Serialized(w)
        /\ call[w].op = "get_top_feeds"
        /\ Len(reply[w].value.items) = 1
        /\ DOMAIN UpstreamArticle(w, 1).attrs = {"article_id", "title", "url"}
        /\ Cardinality(DOMAIN reply[w].value.items[1].members) = 18
        /\ reply[w].value.items[1].members.claps = JsonNumber(0)
        /\ reply[w].value.items[1].members.tags = JsonEmptyArray
        /\ reply[w].value.items[1].members.language = JsonText(<<"en">>)

----------------------------------------------------------------------------
(* client.py: defensive extraction *)

\* the upstream object carries a value in each of the attributes
Carries(upstream, attributes) ==
    /\ upstream.t = "obj"
    /\ \A f \in attributes : ~Omits(upstream, f)

\* every upstream call of w has returned
UpstreamReturned(w) ==
    /\ upcalls[w] # <<>>
    /\ \A i \in 1..Len(upcalls[w]) : upcalls[w][i].outcome.kind = "return"

\* the invocation of w is over, its upstream calls have returned, and each
\* upstream object carries the required fields of its record (UserProfile:
\* identifier, handle, display name, follower count; ArticleSummary:
\* identifier, title, author, URL, slug; ArticleBody: title and the
\* representation selected)
RequiredFieldsCarried(w) ==
    /\ Done(w)
    /\ UpstreamReturned(w)
    /\ CASE call[w].op = "get_user_info" ->
              Carries(held[w], {"user_id", "username", "fullname", "followers_count"})
         [] call[w].op = "get_article_content" ->
              /\ Representation(call[w].args.content_format) # "none"
              /\ Carries(held[w],
                         {"title", Representation(call[w].args.content_format)})
         [] OTHER ->
              /\ held[w].t = "list"
              /\ \A i \in 1..Len(held[w].v) :
                    Carries(UpstreamArticle(w, i),
                            {"article_id", "title", "author", "url", "unique_slug"})

\* C20: in each of the five access-layer operations, an upstream object that
\* omits fields that are not required (they are missing or hold no value)
\* still gives a record, with the default in each such field: the operation
\* succeeds.
C20_OmittedFieldGivesDefault ==
    \A w \in workers :
        RequiredFieldsCarried(w) =>
            /\ Succeeded(w)
            /\ ToolCalled(w) => (Serialized(w) /\ SerializedComplete(w))

----------------------------------------------------------------------------
(* client.py: the upstream calls of an invocation *)

\* the names of the upstream calls w has issued, in order
Issued(w) == [i \in 1..Len(upcalls[w]) |-> upcalls[w][i].fn]

\* C21: no retries: once an upstream call of an invocation has failed, the
\* invocation issues no further upstream call (the failed one is the last),
\* and the operation ends at once with a MediumError.
C21_NoCallAfterFailure ==
    \A w \in workers :
        \A i \in 1..Len(upcalls[w]) :
            upcalls[w][i].outcome.kind = "raise" =>
                /\ i = Len(upcalls[w])
                /\ Failed(w)
                /\ result[w].exc.type = "MediumError"

\* search_articles: the search returned, the hydration failed, and the
\* operation raised with these two calls issued
C21_Witness ==
    \E w \in workers :
        /\ Failed(w)
        /\ call[w].op = "search_articles"
        /\ Issued(w) = <<"search_articles", "fetch_articles">>
        /\ upcalls[w][1].outcome.kind = "return"
        /\ upcalls[w][2].outcome.kind = "raise"

\* C22 as stated: a successful invocation issues exactly one primary upstream
\* call; get_top_feeds and search_articles alone issue one more, the
\* hydration, once and after the primary call; get_user_info,
\* get_user_articles and get_article_content issue no second upstream call.
C22_OnlyFeedAndSearchHydrate ==
    \A w \in workers :
        Succeeded(w) =>
            Issued(w) =
                CASE call[w].op = "get_user_info" -> <<"user">>
                  [] call[w].op = "get_user_articles" -> <<"user">>
                  [] call[w].op = "get_article_content" -> <<"article">>
                  [] call[w].op = "get_top_feeds" -> <<"topfeeds", "fetch_articles">>
                  [] OTHER -> <<"search_articles", "fetch_articles">>

\* C22, amended: a successful invocation issues exactly one primary upstream
\* call; get_user_articles, get_top_feeds and search_articles issue one more,
\* the hydration (user.fetch_articles() or medium.fetch_articles(results)),
\* once and after the primary call; get_user_info and get_article_content
\* issue no second upstream call.
C22_ListOperationsHydrateOnce ==
    \A w \in workers :
        Succeeded(w) =>
            /\ Issued(w) =
                  CASE call[w].op = "get_user_info" -> <<"user">>
                    [] call[w].op = "get_user_articles" ->
                          <<"user", "User.fetch_articles">>
                    [] call[w].op = "get_article_content" -> <<"article">>
                    [] call[w].op = "get_top_feeds" -> <<"topfeeds", "fetch_articles">>
                    [] OTHER -> <<"search_articles", "fetch_articles">>
            /\ \A i \in 1..Len(upcalls[w]) : upcalls[w][i].outcome.kind = "return"

\* get_user_articles succeeded after medium.user and user.fetch_articles
C22_Witness ==
    \E w \in workers :
        /\ Succeeded(w)
        /\ call[w].op = "get_user_articles"
        /\ Issued(w) = <<"user", "User.fetch_articles">>

\* w runs get_top_feeds or search_articles and has issued the hydration call
HydrationIssued(w) ==
    /\ call[w].layer # "none"
    /\ call[w].op \in {"get_top_feeds", "search_articles"}
    /\ Len(upcalls[w]) = 2

\* min(requested, ceiling) of the invocation of w
RequestedOrCeiling(w) ==
    IF call[w].args.count <= client.config.max_articles_per_request
    THEN call[w].args.count
    ELSE client.config.max_articles_per_request

\* the hydration call of w received the first min(requested, ceiling) items
\* of the list the primary call produced (all of them when there are fewer)
HydratesTruncated(w) ==
    LET given == upcalls[w][2].args.articles
    IN  /\ Len(given) <= RequestedOrCeiling(w)
        /\ Len(given) = Smallest(RequestedOrCeiling(w), Len(held[w].v), Len(held[w].v))
        /\ given = FirstN(held[w].v, Len(given))

\* get_user_articles of w hydrated the whole list of the author (the call
\* takes no list and no count) and cut the fetched list afterwards
TruncatesHydrated(w) ==
    /\ upcalls[w][2] =
          [fn |-> "User.fetch_articles", args |-> NoAttrs, outcome |-> [kind |-> "return"]]
    /\ Len(result[w].value.v) =
          Smallest(RequestedOrCeiling(w), Len(held[w].v), Len(held[w].v))
    /\ Identifiers(result[w].value.v) =
          FirstN(Identifiers(held[w].v), Len(result[w].value.v))

\* C23 as stated: in get_top_feeds and search_articles the list is cut to
\* min(requested, ceiling) items before the hydration call, which never
\* receives more than min(requested, ceiling) items; in get_user_articles the
\* hydration of the whole list comes first and the fetched list is cut after.
C23_TruncationOrder ==
    \A w \in workers :
        /\ HydrationIssued(w) => HydratesTruncated(w)
        /\ (Succeeded(w) /\ call[w].op = "get_user_articles") => TruncatesHydrated(w)

\* C23, amended: the same for a requested count that is not negative.
C23_TruncationOrderForCount ==
    \A w \in workers :
        /\ (HydrationIssued(w) /\ call[w].args.count >= 0) => HydratesTruncated(w)
        /\ (/\ Succeeded(w)
            /\ call[w].op = "get_user_articles"
            /\ call[w].args.count >= 0) => TruncatesHydrated(w)

\* get_top_feeds with count 1: the feed listed 2 articles and the hydration
\* call was given the first one
C23_Witness ==
    \E w \in workers :
        /\ HydrationIssued(w)
        /\ call[w].op = "get_top_feeds"
        /\ call[w].args.count = 1
        /\ Len(held[w].v) = 2
        /\ upcalls[w][2].args.articles = <<held[w].v[1]>>

----------------------------------------------------------------------------
(* server.py: the shared state *)

\* what two invocations with the same arguments and the same upstream
\* responses gave is the same
SameOutcome ==
    \A a, b \in workers :
        (/\ Done(a) /\ Done(b)
         /\ call[a] = call[b] /\ upcalls[a] = upcalls[b] /\ held[a] = held[b])
            => (result[a] = result[b] /\ reply[a] = reply[b])

----------------------------------------------------------------------------
(* client.py: get_article_content *)

\* get_article_content of w is over and its upstream call returned an article
ArticleFetched(w) ==
    /\ Done(w)
    /\ call[w].op = "get_article_content"
    /\ UpstreamReturned(w)

\* the text a record carries for an upstream value: "" for None
TextOrEmpty(value) == IF value.t = "None" THEN StrV(<<>>) ELSE value

\* C25: the access-layer get_article_content called with a selector outside
\* text, html, markdown does not fail for it: it reads the plain-text
\* representation (the attribute selector "text" reads) and returns a record
\* with that content.
C25_UnknownSelectorReadsText ==
    \A w \in workers :
        (/\ ArticleFetched(w)
         /\ Representation(call[w].args.content_format) = "none"
         /\ {"title", "content"} \subseteq DOMAIN held[w].attrs)
            => /\ Succeeded(w)
               /\ result[w].value.content = TextOrEmpty(held[w].attrs["content"])

\* the selector "pdf" on an article with text, html and markdown returned
\* the text
C25_Witness ==
    \E w \in workers :
        /\ ArticleFetched(w)
        /\ call[w].args.content_format = StrV(<<"pdf">>)
        /\ Succeeded(w)
        /\ "html" \in DOMAIN held[w].attrs
        /\ result[w].value.content = StrV(<<"Text 1">>)

----------------------------------------------------------------------------
(* formatting.py: a username that holds nothing *)

\* the value has a username attribute that is None or ""
EmptyUsername(value) ==
    hasattr(value, "username") /\ value.attrs["username"] \in {NoneV, StrV(<<>>)}

\* C26: convert_to_string of a truthy value whose username attribute is
\* empty or None gives neither "" nor the username: it gives the isoformat
\* text when the value has an isoformat method, and str(value) otherwise.
C26_EmptyUsernameFallsThrough ==
    (Converted /\ EmptyUsername(eval.arg.value)) =>
        LET value == eval.arg.value
        IN  /\ eval.out # StrV(<<>>)
            /\ eval.out # StrV(<<"N", "o", "n", "e">>)
            /\ eval.out =
                  IF "isoformat" \in DOMAIN value.attrs
                  THEN value.attrs["isoformat"]
                  ELSE IF "__str__" \in DOMAIN value.attrs
                  THEN value.attrs["__str__"]
                  ELSE StrV(<<"<", value.cls, " object>">>)

\* a MockUser whose username is None gave "<MockUser object>"
C26_Witness ==
    /\ Converted
    /\ eval.arg.value = ObjV("MockUser", [username |-> NoneV])
    /\ eval.out = StrV(<<"<", "MockUser", " object>">>)

\* the attribute of the upstream article that the selector of w reads
SelectedField(w) ==
    IF Representation(call[w].args.content_format) = "none" THEN "content"
    ELSE Representation(call[w].args.content_format)

\* C27: in every ArticleContent that get_article_content returns, title,
\* content, author and published_at are text and never None: an upstream
\* title, selected content, author or publish date that holds no value gives
\* the empty string (and the operation succeeds); subtitle may stay None.
C27_BodyFieldsAreText ==
    \A w \in workers :
        /\ BodyReturned(w) =>
              /\ \A f \in {"title", "content", "author", "published_at"} :
                    result[w].value[f].t = "str"
              /\ result[w].value.subtitle.t \in {"str", "None"}
        /\ (/\ ArticleFetched(w)
            /\ {"title", SelectedField(w)} \subseteq DOMAIN held[w].attrs)
              => /\ Succeeded(w)
                 /\ result[w].value.title = TextOrEmpty(held[w].attrs["title"])
                 /\ result[w].value.content =
                       TextOrEmpty(held[w].attrs[SelectedField(w)])
                 /\ Omits(held[w], "author") => result[w].value.author = StrV(<<>>)
                 /\ Omits(held[w], "published_at")
                       => result[w].value.published_at = StrV(<<>>)
                 /\ Omits(held[w], "subtitle") => result[w].value.subtitle = NoneV

\* an article whose attributes all hold None gave a record of empty texts
\* and a subtitle of None
C27_Witness ==
    \E w \in workers :
        /\ BodyReturned(w)
        /\ call[w].args.content_format = StrV(<<"markdown">>)
        /\ held[w].attrs["title"] = NoneV
        /\ held[w].attrs["markdown"] = NoneV
        /\ result[w].value =
              [title |-> StrV(<<>>), subtitle |-> NoneV, content |-> StrV(<<>>),
               content_format |-> StrV(<<"markdown">>), author |-> StrV(<<>>),
               published_at |-> StrV(<<>>)]

----------------------------------------------------------------------------
(* client.py: the lists *)

\* a list operation of w is over and its two upstream calls have returned
ListFetched(w) ==
    /\ Done(w)
    /\ call[w].op \in ListOperations
    /\ UpstreamReturned(w)
    /\ Len(upcalls[w]) = 2

\* the upstream articles the operation of w maps, after truncation
Taken(w) ==
    IF call[w].op = "get_user_articles"
    THEN Slice(held[w].v, RequestedOrCeiling(w))
    ELSE [i \in 1..Len(upcalls[w][2].args.articles) |->
             Hydrated(upcalls[w][2].args.articles[i])]

\* C28: the list operations are all-or-nothing: when the mapping of one
\* upstream article fails (a title or a url is missing in get_user_articles
\* or get_top_feeds) the operation raises a MediumError and returns no part
\* of the list; a list that is returned has one record for each upstream
\* item left by the truncation, in the same order.
C28_ListsAllOrNothing ==
    \A w \in workers :
        ListFetched(w) =>
            /\ (/\ call[w].op \in {"get_user_articles", "get_top_feeds"}
                /\ \E i \in 1..Len(Taken(w)) :
                      ~({"title", "url"} \subseteq DOMAIN Taken(w)[i].attrs))
                  => (Failed(w) /\ result[w].exc.type = "MediumError")
            /\ result[w].kind \in {"return", "raise"}
            /\ Succeeded(w) =>
                  /\ Len(result[w].value.v) = Len(Taken(w))
                  /\ Identifiers(result[w].value.v) = Identifiers(Taken(w))

\* get_top_feeds mapped two articles, the second without a title, and raised
C28_Witness ==
    \E w \in workers :
        /\ ListFetched(w)
        /\ call[w].op = "get_top_feeds"
        /\ Len(Taken(w)) = 2
        /\ "title" \in DOMAIN Taken(w)[1].attrs
        /\ "tags" \in DOMAIN Taken(w)[1].attrs
        /\ Taken(w)[1].attrs["tags"] # NoneV
        /\ "title" \notin DOMAIN Taken(w)[2].attrs
        /\ Failed(w)

----------------------------------------------------------------------------
(* client.py: _handle_api_error never returns *)

\* the value is a fully constructed record of the model
RecordOf(value, schema) ==
    /\ value # NoneV
    /\ DOMAIN value = DOMAIN schema
    /\ \A f \in DOMAIN schema : Conforms(value[f], schema[f])

\* the operation of w has entered the access layer and is over
OperationOver(w) == Done(w) /\ upcalls[w] # <<>>

\* C29: _handle_api_error raises a MediumError, which carries the context of
\* the operation, for every failure it is given and never returns; so no
\* access-layer operation returns None: an invocation that is over has
\* raised, or has returned a fully constructed record (get_user_info,
\* get_article_content) or a list of such records (the list operations).
C29_NeverReturnsNone ==
    \A w \in workers :
        OperationOver(w) =>
            /\ result[w] # Returned(NoneV)
            /\ Failed(w) =>
                  /\ result[w].exc.type = "MediumError"
                  /\ "context" \in DOMAIN result[w].exc.details
                  /\ result[w].exc.details["context"]
                        = Context(call[w].op, call[w].args)
            /\ (Succeeded(w) /\ call[w].op = "get_user_info")
                  => RecordOf(result[w].value, MediumUser)
            /\ (Succeeded(w) /\ call[w].op = "get_article_content")
                  => RecordOf(result[w].value, ArticleContent)
            /\ (Succeeded(w) /\ call[w].op \in ListOperations)
                  => /\ result[w].value.t = "list"
                     /\ \A i \in 1..Len(result[w].value.v) :
                           RecordOf(result[w].value.v[i], MediumArticle)
            /\ (UpstreamRaised(w) \/ ~UpstreamReturned(w)) => Failed(w)

\* the upstream did not find the user and get_user_info raised the 404
\* MediumError instead of returning None
C29_Witness ==
    \E w \in workers :
        /\ Failed(w)
        /\ UpstreamRaised(w)
        /\ call[w].op = "get_user_info"
        /\ Contains(Lower(FailureText(w)), NotFoundText)
        /\ result[w].exc.status_code = IntV(404)

----------------------------------------------------------------------------
(* server.py: the order of the checks of a tool *)

\* the mode given to get_top_feeds for w is not one of the six modes
InvalidMode(w) ==
    /\ ToolCalled(w)
    /\ call[w].op = "get_top_feeds"
    /\ call[w].args.mode \notin VALID_FEED_MODES

\* the query given to search_articles for w is blank
BlankQuery(w) ==
    /\ ToolCalled(w)
    /\ call[w].op = "search_articles"
    /\ Blank(call[w].args.query)

\* C30: every tool validates its arguments before it checks that the client
\* is initialized: a call with an invalid argument made while the client is
\* None fails with the validation failure, prefix "Error: ", and not with the
\* "not initialized" failure; the order among the validations is fixed:
\* search_articles reports a blank query before a count out of range, and
\* get_top_feeds reports a count out of range before an invalid mode.
C30_ValidationBeforeInitialization ==
    \A w \in workers :
        ToolCalled(w) =>
            /\ (client = NoneV /\ InvalidArgument(w)) =>
                  /\ ~NotInitializedFailure(w)
                  /\ reply[w].kind = "raise"
                  /\ Head(reply[w].exc.msg) = "Error: "
            /\ (client = NoneV /\ CountOutOfRange(w)
                              /\ call[w].op = "get_user_articles")
                  => RejectedWith(w, "Count must be between 1 and 100")
            /\ (BlankQuery(w) /\ CountOutOfRange(w))
                  => RejectedWith(w, "Search query cannot be empty")
            /\ (InvalidMode(w) /\ CountOutOfRange(w))
                  => RejectedWith(w, "Count must be between 1 and 100")
            /\ (InvalidMode(w) /\ ~CountOutOfRange(w))
                  => /\ RejectedBeforeDelegation(w)
                     /\ Head(reply[w].exc.msg) = "Error: "
                     /\ reply[w].exc.msg[2] = "Invalid mode '"

\* while the client was None, get_top_feeds with count 101 and the mode
\* "latest" was rejected for its count
C30_Witness ==
    \E w \in workers :
        /\ client = NoneV
        /\ InvalidMode(w)
        /\ call[w].args.count = 101
        /\ RejectedWith(w, "Count must be between 1 and 100")

\* while the client was None, search_articles with a blank query and count 0
\* was rejected for its query
C30_WitnessSearch ==
    \E w \in workers :
        /\ client = NoneV
        /\ BlankQuery(w)
        /\ call[w].args.count = 0
        /\ RejectedWith(w, "Search query cannot be empty")

====
